---- MODULE Spec2Model ----
(***************************************************************************)
(* A model of the ATS matching engine of ctd2022/job-apps:                 *)
(*   src/src/document_parser.py  section detection, entity extraction      *)
(*   src/src/semantic_scorer.py  embedding cache, semantic score, rails    *)
(*   src/src/ats_optimizer.py    keyword extraction, lexical/hybrid score  *)
(*                                                                         *)
(* Numbers.  Python floats are modelled by exact rationals <<n, d>> with   *)
(* d > 0.  round(x, 1) is modelled by Round1 (nearest tenth, as an integer *)
(* number of tenths); Python rounds the binary double half-to-even, so a   *)
(* modelled value may differ from the program's in the last tenth on an    *)
(* exact tie.  Every property below about a rounded value is stated with   *)
(* that tolerance or does not depend on it.                                *)
(***************************************************************************)
EXTENDS Integers, Sequences, FiniteSets, TLC

VARIABLES
    hyb,     \* one call of calculate_hybrid_score: its arguments and result
    run,     \* one call of calculate_ats_score, step by step
    scorer,  \* one SemanticScorer instance over a sequence of calls
    doc,     \* one call of DocumentParser.parse_cv / parse_jd
    opt      \* one ATSOptimizer instance over a sequence of calls

vars == <<hyb, run, scorer, doc, opt>>

\* The value of a variable that a specification does not use.
Idle == [pc |-> "off"]

None == "None"

-----------------------------------------------------------------------------
(* Exact rationals.                                                        *)

RECURSIVE Gcd(_, _)
Gcd(a, b) == IF b = 0 THEN a ELSE Gcd(b, a % b)

\* The rational n/d (d > 0) in lowest terms: one value per number, as a float
\* is, and small enough for machine integers.
Frac(n, d) ==
    LET g == Gcd(IF n < 0 THEN -n ELSE n, d)
    IN  IF n = 0 THEN <<0, 1>> ELSE <<n \div g, d \div g>>
Num(f) == f[1]
Den(f) == f[2]
FInt(i) == <<i, 1>>
FAdd(a, b) == Frac(a[1] * b[2] + b[1] * a[2], a[2] * b[2])
FSub(a, b) == Frac(a[1] * b[2] - b[1] * a[2], a[2] * b[2])
FMul(a, b) == Frac(a[1] * b[1], a[2] * b[2])
FLt(a, b) == a[1] * b[2] < b[1] * a[2]
FLe(a, b) == a[1] * b[2] <= b[1] * a[2]
FMin(a, b) == IF FLe(a, b) THEN a ELSE b
FMax(a, b) == IF FLe(a, b) THEN b ELSE a
FAbs(a) == IF a[1] < 0 THEN <<-a[1], a[2]>> ELSE a

\* round(x, 1) as a number of tenths: the nearest tenth.  A number of
\* quarters lies half way between two tenths and is a float exactly, and
\* round takes it to the even tenth; any other number half way is no float,
\* and is taken upward here.
Round1(a) ==
    LET up == (20 * a[1] + a[2]) \div (2 * a[2])
    IN  IF a[2] = 4 /\ up % 2 = 1 THEN up - 1 ELSE up
\* round(x, 2) as a number of hundredths; here the exact halves are the
\* numbers of eighths.
Round2(a) ==
    LET up == (200 * a[1] + a[2]) \div (2 * a[2])
    IN  IF a[2] = 8 /\ up % 2 = 1 THEN up - 1 ELSE up
\* A number of tenths (hundredths) as a rational.
Tenths(t) == Frac(t, 10)
Hundredths(h) == Frac(h, 100)

-----------------------------------------------------------------------------
(* semantic_scorer.py: the data classes, the model load, the score.        *)
(* Similarities are numbers of tenths (round(similarity * 100, 1)).        *)

\* SemanticMatch (lines 33-41), without the two text previews.
SemanticMatch(jd_section, cv_section, similarity, is_high_value) ==
    [jd_section |-> jd_section, cv_section |-> cv_section,
     similarity |-> similarity, is_high_value |-> is_high_value]

\* SemanticScoreResult (lines 44-53) with the dataclass defaults for the
\* fields a caller does not pass; score is a rational.
SemanticScoreResult(score, available, gaps) ==
    [score |-> score, section_similarities |-> <<>>, top_matches |-> <<>>,
     gaps |-> gaps, entity_support_ratio |-> 0, high_value_match_count |-> 0,
     available |-> available]

\* SECTION_MAPPING (lines 112-119) in the dict's iteration order.
SECTION_MAPPING ==
    << <<"requirements", <<"skills", "experience">> >>,
       <<"responsibilities", <<"experience", "projects">> >>,
       <<"preferred", <<"skills", "projects">> >>,
       <<"qualifications",
         <<"skills", "experience", "education", "certifications">> >>,
       <<"overview", <<"summary", "experience", "skills">> >>,
       <<"about", <<"summary">> >> >>

\* HIGH_VALUE_SECTIONS (line 122).
HIGH_VALUE_SECTIONS == {"experience", "projects"}

\* A scorer that tries the load again on every call.
LoadModelRetrying(sc, st_available, ctor_ok) ==
    IF ~st_available
    THEN [ok |-> FALSE, sc |-> [sc EXCEPT !.model_loaded = TRUE],
          attempted |-> FALSE]
    ELSE [ok |-> ctor_ok,
          sc |-> [sc EXCEPT !.model_loaded = TRUE,
                            !.model = IF ctor_ok THEN "model" ELSE None],
          attempted |-> TRUE]

\* _load_model (lines 138-157) on the scorer fields sc = [model_loaded,
\* model]; st_available is SENTENCE_TRANSFORMERS_AVAILABLE and ctor_ok tells
\* whether SentenceTransformer(MODEL_NAME) returns (TRUE) or raises (FALSE).
\* Yields the return value, the fields afterwards and whether the constructor
\* was called.
_load_model(sc, st_available, ctor_ok) ==
    IF sc.model_loaded
    THEN [ok |-> sc.model # None, sc |-> sc, attempted |-> FALSE]
    ELSE IF ~st_available
    THEN [ok |-> FALSE, sc |-> [sc EXCEPT !.model_loaded = TRUE],
          attempted |-> FALSE]
    ELSE [ok |-> ctor_ok,
          sc |-> [sc EXCEPT !.model_loaded = TRUE,
                            !.model = IF ctor_ok THEN "model" ELSE None],
          attempted |-> TRUE]

\* Line 282: matches.sort(key=similarity, reverse=True); the sort is stable,
\* so equal similarities keep their order.
RECURSIVE InsertMatch(_, _)
InsertMatch(m, sorted) ==
    IF sorted = <<>> THEN <<m>>
    ELSE IF Head(sorted).similarity >= m.similarity
         THEN <<Head(sorted)>> \o InsertMatch(m, Tail(sorted))
         ELSE <<m>> \o sorted

RECURSIVE SortMatches(_)
SortMatches(matches) ==
    IF matches = <<>> THEN <<>>
    ELSE InsertMatch(matches[Len(matches)],
                     SortMatches(SubSeq(matches, 1, Len(matches) - 1)))

\* _count_hard_entities (lines 285-292).
RECURSIVE _count_hard_entities(_)
_count_hard_entities(entities) ==
    IF entities = <<>> THEN 0
    ELSE (IF Head(entities).entity_type \in {"hard_skill", "certification"}
          THEN 1 ELSE 0) + _count_hard_entities(Tail(entities))

\* The return of the rails without the clamp.
ClampScoreMissing(adjusted_score) == adjusted_score

\* Line 334: max(0, min(100, adjusted_score)).
ClampScore(adjusted_score) ==
    FMax(FInt(0), FMin(FInt(100), adjusted_score))

\* Lines 312-315: the entity ratio of the first rail.
RailEntityRatio(cv_entities, jd_entities) ==
    IF jd_entities > 0 THEN Frac(cv_entities, jd_entities)
    ELSE IF cv_entities > 0 THEN FInt(1) ELSE Frac(1, 2)

\* Line 323: the high-value matches above 50.
HighValueMatches(matches) ==
    SelectSeq(matches, LAMBDA m : m.is_high_value /\ m.similarity > 500)

\* The adjusted score and the gaps as the rails pass them on.
Railed(score, gaps) == [score |-> score, gaps |-> gaps]

\* A first rail that subtracts the whole excess over 70.
SafetyRail1FullPenalty(raw_score, cv_entities, jd_entities) ==
    IF /\ FLt(FInt(70), raw_score)
       /\ FLt(RailEntityRatio(cv_entities, jd_entities), Frac(3, 10))
    THEN Railed(FInt(70), <<"Low entity coverage">>)
    ELSE Railed(raw_score, <<>>)

\* Safety Rail 1 (lines 304-320), from adjusted_score = raw_score and no
\* gaps; the note stands for the f-string of line 320.
SafetyRail1(raw_score, cv_entities, jd_entities) ==
    IF /\ FLt(FInt(70), raw_score)
       /\ FLt(RailEntityRatio(cv_entities, jd_entities), Frac(3, 10))
    THEN Railed(FSub(raw_score,
                     FMul(FSub(raw_score, FInt(70)), Frac(1, 2))),
                <<"Low entity coverage">>)
    ELSE Railed(raw_score, <<>>)

\* A second rail that caps nothing.
SafetyRail2Skipped(r, matches) == r

\* Safety Rail 2 (lines 322-327).
SafetyRail2(r, matches) ==
    IF HighValueMatches(matches) = <<>> /\ FLt(FInt(60), r.score)
    THEN Railed(FMin(r.score, FInt(60)),
                r.gaps \o <<"No strong Experience/Projects matches">>)
    ELSE r

\* A third rail that caps nothing.
SafetyRail3Skipped(r, matches) == r

\* Safety Rail 3 (lines 329-332).
SafetyRail3(r, matches) ==
    IF Len(matches) < 2 /\ FLt(FInt(50), r.score)
    THEN Railed(FMin(r.score, FInt(50)),
                r.gaps \o <<"Limited section coverage">>)
    ELSE r

\* _apply_safety_rails (lines 294-334); cv_entities and jd_entities are the
\* two _count_hard_entities results.
_apply_safety_rails(raw_score, matches, cv_entities, jd_entities) ==
    LET r == SafetyRail3(
                 SafetyRail2(SafetyRail1(raw_score, cv_entities, jd_entities),
                             matches),
                 matches)
    IN  Railed(ClampScore(r.score), r.gaps)

\* Line 379: the weight of a match, in halves.
MatchWeight2(m) == IF m.is_high_value THEN 3 ELSE 2

RECURSIVE WeightedSum2(_)
WeightedSum2(matches) ==
    IF matches = <<>> THEN 0
    ELSE Head(matches).similarity * MatchWeight2(Head(matches))
         + WeightedSum2(Tail(matches))

RECURSIVE TotalWeight2(_)
TotalWeight2(matches) ==
    IF matches = <<>> THEN 0
    ELSE MatchWeight2(Head(matches)) + TotalWeight2(Tail(matches))

\* Lines 370-395: the weighted average of the similarities.
RawScore(matches) ==
    IF TotalWeight2(matches) > 0
    THEN Frac(WeightedSum2(matches), 10 * TotalWeight2(matches))
    ELSE FInt(0)

\* Lines 383-390: the best similarity per JD section.
SectionSimilarities(matches) ==
    LET secs == {matches[i].jd_section : i \in 1..Len(matches)}
        best(sec) ==
            CHOOSE v \in {matches[i].similarity : i \in
                            {j \in 1..Len(matches) :
                                matches[j].jd_section = sec}} :
                \A i \in 1..Len(matches) :
                    matches[i].jd_section = sec => matches[i].similarity <= v
    IN  [sec \in secs |-> best(sec)]

\* Lines 363-413 of calculate_semantic_score: the result for the sorted
\* matches of a scorer whose model is loaded; cv_entities and jd_entities are
\* the _count_hard_entities of the two parsed documents (lines 401-402).
ScoreMatches(matches, cv_entities, jd_entities) ==
    IF matches = <<>>
    THEN SemanticScoreResult(FInt(0), TRUE, <<"No matchable sections found">>)
    ELSE LET railed == _apply_safety_rails(RawScore(matches), matches,
                                           cv_entities, jd_entities)
         IN  [score |-> Tenths(Round1(railed.score)),
              section_similarities |-> SectionSimilarities(matches),
              top_matches |-> SubSeq(matches, 1,
                                  IF Len(matches) < 5 THEN Len(matches) ELSE 5),
              gaps |-> railed.gaps,
              entity_support_ratio |->
                  IF jd_entities > 0
                  THEN Round2(Frac(cv_entities, jd_entities)) ELSE 0,
              high_value_match_count |-> Len(HighValueMatches(matches)),
              available |-> TRUE]

-----------------------------------------------------------------------------
(* ats_optimizer.py: ATSOptimizer.calculate_hybrid_score                   *)

\* The weights without the fallback branch: a scorer that forgets to move the
\* semantic weight to the lexical score when no semantic signal exists.
HybridWeightsNoFallback(available) ==
    [lexical |-> 55, semantic |-> 35, evidence |-> 10]

\* Lines 647-660: the three weights, in hundredths.
HybridWeights(available) ==
    IF available
    THEN [lexical |-> 55, semantic |-> 35, evidence |-> 10]
    ELSE [lexical |-> 90, semantic |-> 0, evidence |-> 10]

\* Lines 653 and 660: the semantic score that enters the blend.
HybridSemanticScore(semantic_result) ==
    IF semantic_result.available THEN semantic_result.score ELSE FInt(0)

\* The normalisation without its clamp.
EvidenceNormUnclamped(evidence_strength) ==
    FMul(FSub(evidence_strength, Frac(1, 2)), Frac(200, 3))

\* Line 664: min(100, max(0, (evidence_strength - 0.5) / 1.5 * 100)).
EvidenceNorm(evidence_strength) ==
    FMin(FInt(100),
         FMax(FInt(0), FMul(FSub(evidence_strength, Frac(1, 2)), Frac(200, 3))))

\* Lines 667-671: the weighted sum, before rounding.
HybridFinal(lexical_score, semantic_score, evidence_score, w) ==
    FAdd(FAdd(FMul(lexical_score, Hundredths(w.lexical)),
              FMul(semantic_score, Hundredths(w.semantic))),
         FMul(evidence_score, Hundredths(w.evidence)))

\* Lines 631-685.  Scores of the returned dict are numbers of tenths
\* (round(.., 1)); weights are hundredths.
calculate_hybrid_score(lexical_score, semantic_result, evidence_strength) ==
    LET w == HybridWeights(semantic_result.available)
        semantic_score == HybridSemanticScore(semantic_result)
        evidence_score == EvidenceNorm(evidence_strength)
        final_score ==
            HybridFinal(lexical_score, semantic_score, evidence_score, w)
    IN  [final_score |-> Round1(final_score),
         lexical_score |-> Round1(lexical_score),
         lexical_weight |-> w.lexical,
         lexical_contribution |->
             Round1(FMul(lexical_score, Hundredths(w.lexical))),
         semantic_score |-> Round1(semantic_score),
         semantic_weight |-> w.semantic,
         semantic_contribution |->
             Round1(FMul(semantic_score, Hundredths(w.semantic))),
         evidence_score |-> Round1(evidence_score),
         evidence_weight |-> w.evidence,
         evidence_contribution |->
             Round1(FMul(evidence_score, Hundredths(w.evidence))),
         semantic_available |-> semantic_result.available]

-----------------------------------------------------------------------------
(* Entities (document_parser.py:48-79).  An entity's text is the matched   *)
(* surface form: w is its lowercase spelling and c its letter case, so     *)
(* text.lower() is the projection w.  evidence_strength is in hundredths.  *)

Text(w, c) == [w |-> w, c |-> c]
Lower(text) == text.w

Entity(text, entity_type, section, evidence_strength) ==
    [text |-> text, entity_type |-> entity_type, section |-> section,
     evidence_strength |-> evidence_strength]

\* Entity.__eq__ / __hash__ (lines 73-79): (text.lower(), entity_type).
EntityKey(e) == <<Lower(e.text), e.entity_type>>
EntityEq(a, b) == EntityKey(a) = EntityKey(b)

\* `entity in entities` on a Python list: some element is __eq__ to it.
EntityIn(e, entities) ==
    \E i \in 1..Len(entities) : EntityEq(entities[i], e)

-----------------------------------------------------------------------------
(* ats_optimizer.py: ATSOptimizer._calculate_evidence_scores               *)

\* Lines 593-594: lowercase texts of the JD's hard and soft skills.
JdSkillTexts(jd_entities) ==
    {Lower(jd_entities[i].text) : i \in
        {j \in 1..Len(jd_entities) :
            jd_entities[j].entity_type \in {"hard_skill", "soft_skill"}}}

\* Lines 600-602: the CV entities whose lowercase text is a JD skill, in order.
RECURSIVE MatchedEvidence(_, _)
MatchedEvidence(cv_entities, jd_skills) ==
    IF cv_entities = <<>> THEN <<>>
    ELSE LET e == Head(cv_entities)
             rest == MatchedEvidence(Tail(cv_entities), jd_skills)
         IN  IF Lower(e.text) \in jd_skills THEN <<e>> \o rest ELSE rest

RECURSIVE SumStrength(_)
SumStrength(entities) ==
    IF entities = <<>> THEN 0
    ELSE Head(entities).evidence_strength + SumStrength(Tail(entities))

\* Lines 606-623: the three buckets (strong > 1.3, moderate >= 1.0, weak).
EvidenceBucket(strength) ==
    IF strength > 130 THEN "strong_evidence"
    ELSE IF strength >= 100 THEN "moderate_evidence"
    ELSE "weak_evidence"

\* Lines 579-629.  average_strength and total_weighted_score are in
\* hundredths (round(.., 2)); 0 when no CV entity matches a JD skill.
_calculate_evidence_scores(cv_entities, jd_entities) ==
    LET matched == MatchedEvidence(cv_entities, JdSkillTexts(jd_entities))
        count == Len(matched)
        total_strength == SumStrength(matched)
        bucket(b) == SelectSeq(matched,
                         LAMBDA e : EvidenceBucket(e.evidence_strength) = b)
    IN  [strong_evidence |-> bucket("strong_evidence"),
         moderate_evidence |-> bucket("moderate_evidence"),
         weak_evidence |-> bucket("weak_evidence"),
         average_strength |->
             IF count > 0 THEN Round2(Frac(total_strength, 100 * count))
             ELSE 0,
         total_weighted_score |-> IF count > 0 THEN total_strength ELSE 0]

-----------------------------------------------------------------------------
(* ats_optimizer.py: the category-weighted lexical score.                  *)

\* The keys of `scores` (lines 729-736) in the dict's order.
Categories ==
    <<"critical_keywords", "hard_skills", "required", "soft_skills",
      "preferred", "frequency_keywords">>
CategorySet == {Categories[i] : i \in 1..Len(Categories)}

\* The weights of lines 729-736 in halves: 3.0, 2.5, 2.0, 1.5, 1.0, 0.5.
CategoryWeight2 ==
    [critical_keywords |-> 6, hard_skills |-> 5, required |-> 4,
     soft_skills |-> 3, preferred |-> 2, frequency_keywords |-> 1]

\* Lines 795-800, summed over the categories i..6: counts[c] holds the
\* lengths of scores[c]['matched'] and scores[c]['missing'].  A category
\* adds (matched / total) * weight * total = matched * weight to the
\* weighted score and weight * total to the total weight, if total > 0.
RECURSIVE WeightedScore2(_, _)
WeightedScore2(counts, i) ==
    IF i > Len(Categories) THEN 0
    ELSE LET c == Categories[i]
         IN  (IF counts[c].matched + counts[c].missing > 0
              THEN counts[c].matched * CategoryWeight2[c] ELSE 0)
             + WeightedScore2(counts, i + 1)

RECURSIVE TotalCategoryWeight2(_, _)
TotalCategoryWeight2(counts, i) ==
    IF i > Len(Categories) THEN 0
    ELSE LET c == Categories[i]
         IN  (counts[c].matched + counts[c].missing) * CategoryWeight2[c]
             + TotalCategoryWeight2(counts, i + 1)

\* The keywords of one kind ("matched" or "missing") in the categories i..6.
RECURSIVE SumCounts(_, _, _)
SumCounts(counts, kind, i) ==
    IF i > Len(Categories) THEN 0
    ELSE counts[Categories[i]][kind] + SumCounts(counts, kind, i + 1)

\* A score that counts every keyword alike, whatever its category.
LexicalScoreUnweighted(counts) ==
    IF SumCounts(counts, "matched", 1) + SumCounts(counts, "missing", 1) > 0
    THEN Frac(100 * SumCounts(counts, "matched", 1),
              SumCounts(counts, "matched", 1) + SumCounts(counts, "missing", 1))
    ELSE FInt(0)

\* Line 802: weighted_score / total_weight * 100, or 0.
LexicalScore(counts) ==
    IF TotalCategoryWeight2(counts, 1) > 0
    THEN Frac(100 * WeightedScore2(counts, 1), TotalCategoryWeight2(counts, 1))
    ELSE FInt(0)

-----------------------------------------------------------------------------
(* semantic_scorer.py: calculate_semantic_score, lines 345-358.            *)

\* A gate that lets every call through to the section matching.
SemanticGateOpen(sc, st_available, ctor_ok) ==
    [proceed |-> TRUE, sc |-> sc, attempted |-> FALSE]

\* Lines 345-358: is_available() first, then _load_model(); proceed tells
\* whether the call goes on to match_sections.
SemanticGate(sc, st_available, ctor_ok) ==
    IF ~st_available
    THEN [proceed |-> FALSE, sc |-> sc, attempted |-> FALSE]
    ELSE LET lm == _load_model(sc, st_available, ctor_ok)
         IN  [proceed |-> lm.ok, sc |-> lm.sc, attempted |-> lm.attempted]

\* Lines 347-351 and 354-358: the result of a call the gate stops.
UnavailableResult == SemanticScoreResult(FInt(0), FALSE, <<>>)

\* The (JD section, CV section) pairs of SECTION_MAPPING in the order
\* match_sections (lines 250-260) visits them.
RECURSIVE PairsOf(_, _)
PairsOf(jd, cvs) ==
    IF cvs = <<>> THEN <<>>
    ELSE << <<jd, Head(cvs)>> >> \o PairsOf(jd, Tail(cvs))

RECURSIVE FlattenMapping(_)
FlattenMapping(mapping) ==
    IF mapping = <<>> THEN <<>>
    ELSE PairsOf(Head(mapping)[1], Head(mapping)[2])
         \o FlattenMapping(Tail(mapping))

SectionPairs == FlattenMapping(SECTION_MAPPING)

\* match_sections (lines 243-283) when every text present is embedded:
\* jd_present and cv_present are the section types whose text has at least
\* 20 characters, and sim[<<jd, cv>>] is round(cosine * 100, 1) in tenths.
RECURSIVE MatchPairs(_, _, _, _)
MatchPairs(pairs, jd_present, cv_present, sim) ==
    IF pairs = <<>> THEN <<>>
    ELSE LET jd == Head(pairs)[1]
             cv == Head(pairs)[2]
             rest == MatchPairs(Tail(pairs), jd_present, cv_present, sim)
         IN  IF jd \in jd_present /\ cv \in cv_present
             THEN <<SemanticMatch(jd, cv, sim[<<jd, cv>>],
                                  cv \in HIGH_VALUE_SECTIONS)>> \o rest
             ELSE rest

MatchSectionsGiven(jd_present, cv_present, sim) ==
    SortMatches(MatchPairs(SectionPairs, jd_present, cv_present, sim))

-----------------------------------------------------------------------------
(* SpecScore: one call of calculate_ats_score on a fresh optimizer, in the *)
(* order of its statements.  What the parser and the keyword matcher hand  *)
(* to the arithmetic is drawn from bounded sets: the entity lists of the   *)
(* two parsed documents, the sections long enough to embed with the        *)
(* similarity the embedding model gives each pair, and the matched and     *)
(* missing keywords of each category.  The state keeps, of each           *)
(* intermediate result, the fields the following statements read.          *)

MaxEntities == 2
MaxItems == 2

CvEntityInputs ==
    {Entity(Text("python", "T"), "hard_skill", "skills", 100),
     Entity(Text("aws", "U"), "hard_skill", "experience", 150),
     Entity(Text("leadership", "l"), "soft_skill", "summary", 110)}

JdEntityInputs ==
    {Entity(Text("python", "T"), "hard_skill", "requirements", 100),
     Entity(Text("docker", "T"), "hard_skill", "preferred", 100),
     Entity(Text("leadership", "l"), "soft_skill", "requirements", 100)}

SeqsUpTo(S, n) == UNION {[1..k -> S] : k \in 0..n}

\* round(cosine * 100, 1) in tenths: a negative cosine, one between the
\* rails' thresholds of 50 and 70, a high one.
SimValues == {-200, 650, 900}

InputJdKinds == {"requirements", "responsibilities"}
InputCvKinds == {"skills", "experience"}

PresentPairs(jd_present, cv_present) ==
    {p \in {SectionPairs[i] : i \in 1..Len(SectionPairs)} :
        p[1] \in jd_present /\ p[2] \in cv_present}

\* The (category, matched or missing) slot of each keyword scored.
ItemSlots == CategorySet \X {"matched", "missing"}

CountsOf(items) ==
    [c \in CategorySet |->
        [matched |-> Cardinality({i \in 1..Len(items) :
                                     items[i] = <<c, "matched">>}),
         missing |-> Cardinality({i \in 1..Len(items) :
                                     items[i] = <<c, "missing">>})]]

CountInputs == {CountsOf(items) : items \in SeqsUpTo(ItemSlots, MaxItems)}

\* The fields of an evidence result that calculate_ats_score reads for the
\* score (line 808) and the evidence counts of the report (lines 853-856).
EvidenceSummary(evidence_scores) ==
    [average_strength |-> evidence_scores.average_strength,
     strong_evidence_count |-> Len(evidence_scores.strong_evidence),
     moderate_evidence_count |-> Len(evidence_scores.moderate_evidence),
     weak_evidence_count |-> Len(evidence_scores.weak_evidence)]

\* The fields of a semantic result that the hybrid score (lines 647-660) and
\* the report's gaps read.
SemanticSummary(semantic_result) ==
    [score |-> semantic_result.score,
     available |-> semantic_result.available,
     gaps |-> semantic_result.gaps,
     high_value_match_count |-> semantic_result.high_value_match_count]

InitScore ==
    /\ run \in [pc : {"start"},
                st_available : BOOLEAN,
                sc : {[model_loaded |-> FALSE, model |-> None]},
                cv_entities : {0}, jd_entities : {0},
                evidence_scores :
                    {EvidenceSummary(_calculate_evidence_scores(<<>>, <<>>))},
                semantic_result : {SemanticSummary(UnavailableResult)},
                lexical_score : {FInt(0)},
                hybrid_scoring : {None},
                score : {0}]
    /\ hyb = Idle /\ scorer = Idle /\ doc = Idle /\ opt = Idle

\* Lines 703-710: the two documents are parsed and the evidence scores
\* computed from their entities.
ScoreParseStep ==
    /\ run.pc = "start"
    /\ \E cv \in SeqsUpTo(CvEntityInputs, MaxEntities),
          jd \in SeqsUpTo(JdEntityInputs, MaxEntities) :
          run' = [run EXCEPT
                    !.pc = "parsed",
                    !.cv_entities = _count_hard_entities(cv),
                    !.jd_entities = _count_hard_entities(jd),
                    !.evidence_scores =
                        EvidenceSummary(_calculate_evidence_scores(cv, jd))]
    /\ UNCHANGED <<hyb, scorer, doc, opt>>

\* Line 713: semantic_scorer.calculate_semantic_score(parsed_cv, parsed_jd).
ScoreSemanticStep ==
    /\ run.pc = "parsed"
    /\ \E ctor_ok \in BOOLEAN :
          LET gate == SemanticGate(run.sc, run.st_available, ctor_ok)
          IN  IF ~gate.proceed
              THEN run' = [run EXCEPT !.pc = "scored", !.sc = gate.sc,
                                      !.semantic_result =
                                          SemanticSummary(UnavailableResult)]
              ELSE \E jd_present \in SUBSET InputJdKinds,
                      cv_present \in SUBSET InputCvKinds :
                      \E sim \in [PresentPairs(jd_present, cv_present)
                                     -> SimValues] :
                          run' = [run EXCEPT
                                    !.pc = "scored", !.sc = gate.sc,
                                    !.semantic_result =
                                      SemanticSummary(ScoreMatches(
                                        MatchSectionsGiven(
                                            jd_present, cv_present, sim),
                                        run.cv_entities, run.jd_entities))]
    /\ UNCHANGED <<hyb, scorer, doc, opt>>

\* Lines 716-802: the keywords of every category are matched against the CV
\* and the lexical score computed.
ScoreLexicalStep ==
    /\ run.pc = "scored"
    /\ \E counts \in CountInputs :
          run' = [run EXCEPT !.pc = "matched",
                             !.lexical_score = LexicalScore(counts)]
    /\ UNCHANGED <<hyb, scorer, doc, opt>>

\* Lines 805-826: the hybrid score and the report's score.
ScoreReportStep ==
    /\ run.pc = "matched"
    /\ LET hybrid_scoring ==
               calculate_hybrid_score(
                   run.lexical_score, run.semantic_result,
                   Hundredths(run.evidence_scores.average_strength))
       IN  run' = [run EXCEPT !.pc = "done",
                              !.hybrid_scoring = hybrid_scoring,
                              !.score = hybrid_scoring.final_score]
    /\ UNCHANGED <<hyb, scorer, doc, opt>>

NextScore ==
    \/ ScoreParseStep
    \/ ScoreSemanticStep
    \/ ScoreLexicalStep
    \/ ScoreReportStep

SpecScore == InitScore /\ [][NextScore]_vars

\* lexical * 0.90 + clamp((strength - 0.5) / 1.5 * 100, 0, 100) * 0.10.
ClaimedFallback(lexical, strength) ==
    LET raw == FMul(FSub(strength, Frac(1, 2)), Frac(200, 3))
        norm == IF FLt(raw, FInt(0)) THEN FInt(0)
                ELSE IF FLt(FInt(100), raw) THEN FInt(100) ELSE raw
    IN  FAdd(FMul(lexical, Frac(9, 10)), FMul(norm, Frac(1, 10)))

InRange(tenths) == 0 <= tenths /\ tenths <= 1000
FInRange(f) == FLe(FInt(0), f) /\ FLe(f, FInt(100))

\* C1: in the report of calculate_ats_score the final score lies in
\* [0, 100], and so do the lexical score, the evidence score and, when the
\* semantic scorer is available, the semantic score (as computed and as
\* reported, rounded to one decimal).
C1_ScoreBounds ==
    /\ run.pc \in {"scored", "matched", "done"} =>
           (run.semantic_result.available =>
                FInRange(run.semantic_result.score))
    /\ run.pc \in {"matched", "done"} => FInRange(run.lexical_score)
    /\ run.pc = "done" =>
           /\ InRange(run.score)
           /\ InRange(run.hybrid_scoring.final_score)
           /\ InRange(run.hybrid_scoring.lexical_score)
           /\ InRange(run.hybrid_scoring.evidence_score)
           /\ (run.hybrid_scoring.semantic_available =>
                   InRange(run.hybrid_scoring.semantic_score))

\* C1 witness: a finished report with the semantic scorer available, a rail
\* applied, and every component strictly inside the range.
C1_Witness ==
    /\ run.pc = "done"
    /\ run.semantic_result.available
    /\ run.semantic_result.gaps # <<>>
    /\ run.hybrid_scoring.semantic_score > 0
    /\ run.hybrid_scoring.lexical_score > 0
    /\ run.hybrid_scoring.lexical_score < 1000
    /\ run.hybrid_scoring.evidence_score > 0
    /\ run.score > 0 /\ run.score < 1000

\* C3: when the embedding backend is absent, calculate_semantic_score
\* returns a result (it does not raise) with available = False and score
\* 0.0 whatever the parsed documents, the scorer makes no load attempt, and
\* the report blends lexical 0.90 and evidence 0.10 with no semantic part.
C3_BackendAbsent ==
    ~run.st_available =>
        /\ run.pc \in {"scored", "matched", "done"} =>
               /\ ~run.semantic_result.available
               /\ run.semantic_result.score = FInt(0)
               /\ run.sc.model = None
        /\ run.pc = "done" =>
               /\ run.hybrid_scoring.lexical_weight = 90
               /\ run.hybrid_scoring.semantic_weight = 0
               /\ run.hybrid_scoring.evidence_weight = 10
               /\ ~run.hybrid_scoring.semantic_available
               /\ FLe(FAbs(FSub(Tenths(run.score),
                       ClaimedFallback(
                           run.lexical_score,
                           Hundredths(run.evidence_scores.average_strength)))),
                      Frac(1, 20))

\* C3 witness: a finished report of a run without the backend whose lexical
\* and evidence parts are both non-zero.
C3_Witness ==
    /\ run.pc = "done"
    /\ ~run.st_available
    /\ run.hybrid_scoring.lexical_score > 0
    /\ run.hybrid_scoring.evidence_score > 0
    /\ run.cv_entities > 0 /\ run.jd_entities > 0

-----------------------------------------------------------------------------
(* SpecHybrid: calculate_hybrid_score applied to arguments drawn from      *)
(* bounded sets.  The method is public, so the semantic result it is given *)
(* need not come from calculate_semantic_score: available = False is       *)
(* paired with every score.                                                *)

LexicalInputs ==
    {FInt(0), FInt(50), Frac(200, 3), FInt(80), Frac(185, 2), FInt(100)}
SemanticInputs == {FInt(0), Tenths(333), FInt(60), FInt(100)}
EvidenceInputs ==
    {Hundredths(0), Hundredths(50), Hundredths(100), Hundredths(125),
     Hundredths(150), Hundredths(200), Hundredths(250)}

InitHybrid ==
    /\ hyb \in [pc : {"call"},
                lexical_score : LexicalInputs,
                semantic_result :
                    {SemanticScoreResult(s, a, <<>>) :
                        s \in SemanticInputs, a \in BOOLEAN},
                evidence_strength : EvidenceInputs,
                result : {None}]
    /\ run = Idle /\ scorer = Idle /\ doc = Idle /\ opt = Idle

HybridCall ==
    /\ hyb.pc = "call"
    /\ hyb' = [hyb EXCEPT
                 !.pc = "done",
                 !.result = calculate_hybrid_score(
                     hyb.lexical_score, hyb.semantic_result,
                     hyb.evidence_strength)]
    /\ UNCHANGED <<run, scorer, doc, opt>>

NextHybrid == HybridCall

SpecHybrid == InitHybrid /\ [][NextHybrid]_vars

\* The claimed closed form, written from the specification's sentence.
ClaimedEvidenceNorm(strength) ==
    LET raw == FMul(FSub(strength, Frac(1, 2)), Frac(200, 3))
    IN  IF FLt(raw, FInt(0)) THEN FInt(0)
        ELSE IF FLt(FInt(100), raw) THEN FInt(100) ELSE raw

ClaimedFinal(lexical, semantic, available, strength) ==
    IF available
    THEN FAdd(FAdd(FMul(lexical, Frac(55, 100)), FMul(semantic, Frac(35, 100))),
              FMul(ClaimedEvidenceNorm(strength), Frac(10, 100)))
    ELSE FAdd(FMul(lexical, Frac(90, 100)),
              FMul(ClaimedEvidenceNorm(strength), Frac(10, 100)))

\* C2: the final score of calculate_hybrid_score is, within the rounding to
\* one decimal, lexical*0.90 + evidence_norm*0.10 when the semantic result is
\* unavailable and lexical*0.55 + semantic*0.35 + evidence_norm*0.10 when it
\* is available; in the unavailable case the closed form does not read the
\* semantic result's score, and the reported semantic contribution is 0.
C2_HybridFormula ==
    hyb.pc = "done" =>
        /\ FLe(FAbs(FSub(Tenths(hyb.result.final_score),
                         ClaimedFinal(hyb.lexical_score,
                                      hyb.semantic_result.score,
                                      hyb.semantic_result.available,
                                      hyb.evidence_strength))),
               Frac(1, 20))
        /\ ~hyb.semantic_result.available =>
               /\ hyb.result.semantic_contribution = 0
               /\ hyb.result.semantic_score = 0

\* C2 witness: the fallback branch taken with a semantic result that carries
\* a non-zero score, a non-zero lexical score and an evidence strength inside
\* the normalised range.
C2_Witness ==
    /\ hyb.pc = "done"
    /\ ~hyb.semantic_result.available
    /\ FLt(FInt(0), hyb.semantic_result.score)
    /\ FLt(FInt(0), hyb.lexical_score)
    /\ hyb.evidence_strength = Hundredths(125)
    /\ hyb.result.final_score > 0

-----------------------------------------------------------------------------
(* semantic_scorer.py: EmbeddingCache and the embedding calls.              *)
(* A text is [body, raw]: raw tells that the text differs from its          *)
(* strip().lower() form.  An embedding is named by the text the model       *)
(* encoded; the cache keeps it under the normalised text.                   *)

ScorerText(body, raw) == [body |-> body, raw |-> raw]

\* text.strip().lower() (lines 70 and 81).
Normalized(text) == [text EXCEPT !.raw = FALSE]

\* len(text.strip()) of the texts used.
TextLen(text) ==
    CASE text.body = "requirements text" -> 40
      [] text.body = "duties text" -> 35
      [] text.body = "skills text" -> 30
      [] text.body = "experience text" -> 45
      [] OTHER -> 5

\* self._model.encode(text): the vector is a function of the text alone.
Encode(text) == [of |-> text]

\* None where a text or a vector is expected.
NoText == ScorerText(None, FALSE)
NoVector == Encode(NoText)

\* round(cosine_similarity(a, b) * 100, 1) in tenths (lines 215-227, 277)
\* for the vectors the model gives the texts used.
SimilarityTenths(a, b) ==
    LET bodies == {a.of.body, b.of.body}
        base == CASE Cardinality(bodies) = 1 -> 1000
                  [] bodies = {"requirements text", "skills text"} -> 900
                  [] bodies = {"requirements text", "experience text"} -> 650
                  [] bodies = {"duties text", "experience text"} -> 720
                  [] OTHER -> -200
    IN  IF a.of.raw = b.of.raw THEN base ELSE base - 40

\* The list.remove of line 74: drop the first occurrence of key.
RECURSIVE RemoveFirst(_, _)
RemoveFirst(seq, key) ==
    IF seq = <<>> THEN <<>>
    ELSE IF Head(seq) = key THEN Tail(seq)
    ELSE <<Head(seq)>> \o RemoveFirst(Tail(seq), key)

Without(f, key) == [k \in DOMAIN f \ {key} |-> f[k]]

\* EmbeddingCache.__init__ (lines 63-66).
EmbeddingCache(maxsize) ==
    [maxsize |-> maxsize, cache |-> <<>>, access_order |-> <<>>]

\* EmbeddingCache.get (lines 68-77): the cache afterwards; the value
\* returned is c.cache[key] when key is cached and None otherwise.
get(c, text) ==
    LET key == Normalized(text)
    IN  IF key \in DOMAIN c.cache
        THEN [c EXCEPT !.access_order = Append(RemoveFirst(@, key), key)]
        ELSE c

\* The eviction loop of lines 84-86.
RECURSIVE Evict(_)
Evict(c) ==
    IF Cardinality(DOMAIN c.cache) >= c.maxsize /\ c.access_order # <<>>
    THEN Evict([c EXCEPT !.access_order = Tail(@),
                         !.cache = Without(@, Head(c.access_order))])
    ELSE c

\* A put that stores without making room.
PutWithoutEviction(c, text, embedding) ==
    [c EXCEPT !.cache = (Normalized(text) :> embedding)
                        @@ Without(@, Normalized(text)),
              !.access_order = Append(@, Normalized(text))]

\* EmbeddingCache.put (lines 79-89).
put(c, text, embedding) ==
    LET key == Normalized(text)
        e == Evict(c)
    IN  [e EXCEPT !.cache = (key :> embedding) @@ Without(@, key),
                  !.access_order = Append(@, key)]

\* EmbeddingCache.clear (lines 91-94).
clear(c) == [c EXCEPT !.cache = <<>>, !.access_order = <<>>]

\* EmbeddingCache.__len__ (lines 96-97).
CacheLen(c) == Cardinality(DOMAIN c.cache)

\* SemanticScorer.__init__ (lines 127-131) with two history fields: loads
\* counts the calls of SentenceTransformer(MODEL_NAME) and failed tells that
\* one of them raised.
NewScorer(cache_size) ==
    [model_loaded |-> FALSE, model |-> None,
     cache |-> EmbeddingCache(cache_size), loads |-> 0, failed |-> FALSE]

\* The history fields after a call of _load_model that did (attempted) or
\* did not call the constructor and returned ok.
History(sc, attempted, ok) ==
    [sc EXCEPT !.loads = IF attempted THEN @ + 1 ELSE @,
               !.failed = @ \/ (attempted /\ ~ok)]

\* Names a value for the expression Body, as a local variable does.
Let(value, Body(_)) == Body(value)

\* A call of self._load_model() with the history fields kept.
Load(sc, st_available, ctor_ok) ==
    Let(_load_model(sc, st_available, ctor_ok), LAMBDA lm :
        [ok |-> lm.ok, sc |-> History(lm.sc, lm.attempted, lm.ok)])

\* embed_text (lines 159-179): the scorer afterwards and the value
\* returned; bad is the set of texts whose encoding raises.
embed_text(sc, st_available, text, ctor_ok, bad) ==
    Let(Load(sc, st_available, ctor_ok), LAMBDA l :
        IF ~l.ok THEN [sc |-> l.sc, embedding |-> NoVector]
        ELSE IF Normalized(text) \in DOMAIN l.sc.cache.cache
        THEN [sc |-> [l.sc EXCEPT !.cache = get(@, text)],
              embedding |-> l.sc.cache.cache[Normalized(text)]]
        ELSE IF text \in bad THEN [sc |-> l.sc, embedding |-> NoVector]
        ELSE [sc |-> [l.sc EXCEPT !.cache = put(@, text, Encode(text))],
              embedding |-> Encode(text)])

\* The first loop of embed_batch (lines 193-200): the cache after the gets
\* and, per text, the cached vector or None.
RECURSIVE BatchLookup(_, _)
BatchLookup(c, texts) ==
    IF texts = <<>> THEN [c |-> c, results |-> <<>>]
    ELSE Let(BatchLookup(get(c, Head(texts)), Tail(texts)), LAMBDA rest :
             [c |-> rest.c,
              results |->
                  <<IF Normalized(Head(texts)) \in DOMAIN c.cache
                    THEN c.cache[Normalized(Head(texts))] ELSE NoVector>>
                  \o rest.results])

\* The second loop (lines 206-209): every text that was not cached is put.
RECURSIVE BatchStore(_, _, _)
BatchStore(c, texts, results) ==
    IF texts = <<>> THEN c
    ELSE BatchStore(IF Head(results) = NoVector
                    THEN put(c, Head(texts), Encode(Head(texts))) ELSE c,
                    Tail(texts), Tail(results))

\* embed_batch (lines 181-213); batch_ok tells whether the one encode call
\* for the uncached texts returns.
embed_batch(sc, st_available, texts, ctor_ok, batch_ok) ==
    Let(Load(sc, st_available, ctor_ok), LAMBDA l :
        IF ~l.ok
        THEN [sc |-> l.sc, results |-> [i \in 1..Len(texts) |-> NoVector]]
        ELSE Let(BatchLookup(l.sc.cache, texts), LAMBDA looked :
            IF batch_ok
            THEN [sc |-> [l.sc EXCEPT !.cache =
                            BatchStore(looked.c, texts, looked.results)],
                  results |-> [i \in 1..Len(texts) |->
                                IF looked.results[i] = NoVector
                                THEN Encode(texts[i])
                                ELSE looked.results[i]]]
            ELSE [sc |-> [l.sc EXCEPT !.cache = looked.c],
                  results |-> looked.results]))

\* A parsed document as the scorer reads it: per section type the text
\* _get_section_text (lines 229-235) returns, and the number of hard
\* entities.
ParsedDoc(sections, hard) == [sections |-> sections, hard |-> hard]

_get_section_text(parsed, section_type) ==
    IF section_type \in DOMAIN parsed.sections
    THEN parsed.sections[section_type] ELSE NoText

\* Lines 253 and 262: no text, or fewer than 20 characters.
TooShort(text) == text = NoText \/ TextLen(text) < 20

\* embed_text for the text of one section, skipped (lines 253-254 and
\* 262-263) when the text is too short.
EmbedSection(sc, st_available, text, ctor_ok, bad) ==
    IF TooShort(text) THEN [sc |-> sc, embedding |-> NoVector]
    ELSE embed_text(sc, st_available, text, ctor_ok, bad)

\* The inner loop of match_sections (lines 256-279) for one JD section.
RECURSIVE MatchCvSections(_, _, _, _, _, _, _, _)
MatchCvSections(sc, st_available, jd_type, jd_embedding, cv_types, parsed_cv, ctor_ok, bad) ==
    IF cv_types = <<>> THEN [sc |-> sc, matches |-> <<>>]
    ELSE Let(EmbedSection(sc, st_available,
                          _get_section_text(parsed_cv, Head(cv_types)),
                          ctor_ok, bad), LAMBDA e :
         Let(MatchCvSections(e.sc, st_available, jd_type, jd_embedding,
                             Tail(cv_types), parsed_cv, ctor_ok, bad),
             LAMBDA rest :
             IF e.embedding = NoVector THEN rest
             ELSE [sc |-> rest.sc,
                   matches |->
                     <<SemanticMatch(jd_type, Head(cv_types),
                          SimilarityTenths(jd_embedding, e.embedding),
                          Head(cv_types) \in HIGH_VALUE_SECTIONS)>>
                     \o rest.matches]))

\* The outer loop of match_sections (lines 250-254).
RECURSIVE MatchJdSections(_, _, _, _, _, _, _)
MatchJdSections(sc, st_available, mapping, parsed_cv, parsed_jd, ctor_ok, bad) ==
    IF mapping = <<>> THEN [sc |-> sc, matches |-> <<>>]
    ELSE Let(EmbedSection(sc, st_available,
                          _get_section_text(parsed_jd, Head(mapping)[1]),
                          ctor_ok, bad), LAMBDA e :
         Let(IF e.embedding = NoVector
             THEN [sc |-> e.sc, matches |-> <<>>]
             ELSE MatchCvSections(e.sc, st_available, Head(mapping)[1],
                                  e.embedding, Head(mapping)[2], parsed_cv,
                                  ctor_ok, bad), LAMBDA inner :
         Let(MatchJdSections(inner.sc, st_available, Tail(mapping),
                             parsed_cv, parsed_jd, ctor_ok, bad),
             LAMBDA rest :
             [sc |-> rest.sc, matches |-> inner.matches \o rest.matches])))

\* match_sections (lines 243-283).
match_sections(sc, st_available, parsed_cv, parsed_jd, ctor_ok, bad) ==
    Let(MatchJdSections(sc, st_available, SECTION_MAPPING, parsed_cv,
                        parsed_jd, ctor_ok, bad), LAMBDA m :
        [sc |-> m.sc, matches |-> SortMatches(m.matches)])

\* The rest of calculate_semantic_score after a gate that let the call
\* through (lines 360-413).
ScoreSections(sc, st_available, parsed_cv, parsed_jd, ctor_ok, bad) ==
    Let(match_sections(sc, st_available, parsed_cv, parsed_jd, ctor_ok, bad),
        LAMBDA m :
        [sc |-> m.sc,
         result |-> ScoreMatches(m.matches, parsed_cv.hard, parsed_jd.hard)])

\* calculate_semantic_score (lines 336-413): the scorer afterwards and the
\* result returned.
calculate_semantic_score(sc, st_available, parsed_cv, parsed_jd, ctor_ok, bad) ==
    Let(SemanticGate(sc, st_available, ctor_ok), LAMBDA gate :
        IF ~gate.proceed
        THEN [sc |-> History(gate.sc, gate.attempted, gate.proceed),
              result |-> UnavailableResult]
        ELSE ScoreSections(History(gate.sc, gate.attempted, gate.proceed),
                           st_available, parsed_cv, parsed_jd, ctor_ok, bad))

-----------------------------------------------------------------------------
(* SpecScorer: one SemanticScorer instance over its lifetime.  Whether the *)
(* sentence-transformers import succeeded is fixed when the module loads;  *)
(* callers then embed texts and score document pairs in any order.  The    *)
(* constructor of the embedding model and its encode call may raise.       *)

MaxCalls == 2
MaxCacheSize == 2
MaxBatch == 2

ScorerTexts ==
    {ScorerText("requirements text", FALSE),
     ScorerText("requirements text", TRUE),
     ScorerText("skills text", FALSE)}

ScorerCvs ==
    {ParsedDoc(("skills" :> ScorerText("skills text", FALSE))
               @@ ("experience" :> ScorerText("experience text", FALSE)), 2),
     ParsedDoc(("skills" :> ScorerText("skills text", TRUE)), 0),
     ParsedDoc(("summary" :> ScorerText("hi", FALSE)), 0)}

ScorerJds ==
    {ParsedDoc(("requirements" :> ScorerText("requirements text", FALSE)), 1),
     ParsedDoc(("requirements" :> ScorerText("requirements text", TRUE))
               @@ ("responsibilities" :> ScorerText("duties text", FALSE)),
               2),
     ParsedDoc(<<>>, 0)}

\* What the last call returned: for calculate_semantic_score the result's
\* available and score, for the embedding calls whether every vector asked
\* for was returned; after_failure tells that a load had failed before the
\* call began.
LastCall(op, available, score, after_failure) ==
    [op |-> op, available |-> available, score |-> score,
     after_failure |-> after_failure]

InitScorer ==
    /\ scorer \in [pc : {"on"},
                   st_available : BOOLEAN,
                   sc : {NewScorer(n) : n \in 1..MaxCacheSize},
                   calls : {0},
                   last : {LastCall("none", FALSE, FInt(0), FALSE)}]
    /\ hyb = Idle /\ run = Idle /\ doc = Idle /\ opt = Idle

CalculateSemanticScore ==
    /\ scorer.pc = "on" /\ scorer.calls < MaxCalls
    /\ \E parsed_cv \in ScorerCvs, parsed_jd \in ScorerJds,
          ctor_ok \in BOOLEAN, bad \in {{}, {ScorerText("skills text", FALSE)}} :
          LET r == calculate_semantic_score(scorer.sc, scorer.st_available,
                                            parsed_cv, parsed_jd, ctor_ok, bad)
          IN  scorer' = [scorer EXCEPT
                           !.sc = r.sc, !.calls = @ + 1,
                           !.last = LastCall("calculate_semantic_score",
                                             r.result.available,
                                             r.result.score,
                                             scorer.sc.failed)]
    /\ UNCHANGED <<hyb, run, doc, opt>>

EmbedText ==
    /\ scorer.pc = "on" /\ scorer.calls < MaxCalls
    /\ \E text \in ScorerTexts, ctor_ok \in BOOLEAN, enc_ok \in BOOLEAN :
          LET r == embed_text(scorer.sc, scorer.st_available, text, ctor_ok,
                              IF enc_ok THEN {} ELSE {text})
          IN  scorer' = [scorer EXCEPT
                           !.sc = r.sc, !.calls = @ + 1,
                           !.last = LastCall("embed_text",
                                             r.embedding # NoVector, FInt(0),
                                             scorer.sc.failed)]
    /\ UNCHANGED <<hyb, run, doc, opt>>

EmbedBatch ==
    /\ scorer.pc = "on" /\ scorer.calls < MaxCalls
    /\ \E texts \in SeqsUpTo(ScorerTexts, MaxBatch),
          ctor_ok \in BOOLEAN, batch_ok \in BOOLEAN :
          LET r == embed_batch(scorer.sc, scorer.st_available, texts, ctor_ok,
                               batch_ok)
          IN  scorer' = [scorer EXCEPT
                           !.sc = r.sc, !.calls = @ + 1,
                           !.last = LastCall("embed_batch",
                                             \A i \in 1..Len(texts) :
                                                 r.results[i] # NoVector,
                                             FInt(0), scorer.sc.failed)]
    /\ UNCHANGED <<hyb, run, doc, opt>>

NextScorer ==
    \/ CalculateSemanticScore
    \/ EmbedText
    \/ EmbedBatch

SpecScorer == InitScorer /\ [][NextScorer]_vars

\* C4: once a load attempt on the scorer has failed, every later
\* calculate_semantic_score call on it returns available = False with score
\* 0.0 (a result, not an exception), no later call of any kind calls the
\* model constructor again, and the failure is never forgotten.
C4_LoadFailurePermanent ==
    [][scorer.pc = "on" /\ scorer.sc.failed =>
         /\ scorer'.sc.failed
         /\ scorer'.sc.loads = scorer.sc.loads
         /\ (scorer'.last.op = "calculate_semantic_score" =>
                /\ ~scorer'.last.available
                /\ scorer'.last.score = FInt(0))]_vars

C4_Witness ==
    /\ scorer.pc = "on"
    /\ scorer.st_available
    /\ scorer.sc.failed
    /\ scorer.sc.loads = 1
    /\ scorer.calls >= 2
    /\ scorer.last.op = "calculate_semantic_score"
    /\ scorer.last.after_failure

-----------------------------------------------------------------------------
(* document_parser.py: texts.  A text is the list of its lines             *)
(* (text.split('\n'), never empty), a line the list of its words separated *)
(* by single spaces, a word a token [w, c, s]: w the lowercase spelling,   *)
(* c the letter case ("l" lower, "T" capitalised, "U" upper, "n" no cased  *)
(* character: a number) and s the punctuation that follows the word.       *)

Tok(w, c, s) == [w |-> w, c |-> c, s |-> s]

\* len(line.strip()).
RECURSIVE LineLen(_)
LineLen(line) ==
    IF line = <<>> THEN 0
    ELSE Len(Head(line).w) + Len(Head(line).s)
         + (IF Len(line) > 1 THEN 1 ELSE 0) + LineLen(Tail(line))

\* str.isupper(): some cased character and no lowercase one.
IsUpper(line) ==
    /\ \E i \in 1..Len(line) : line[i].c = "U"
    /\ \A i \in 1..Len(line) : line[i].c \in {"U", "n"}

\* str.istitle(): every word capitalised (a one-letter upper word is), and
\* at least one word.
IsTitle(line) ==
    LET titled(t) == t.c = "T" \/ (t.c = "U" /\ Len(t.w) = 1)
    IN  /\ \E i \in 1..Len(line) : titled(line[i])
        /\ \A i \in 1..Len(line) : titled(line[i]) \/ line[i].c = "n"

\* Lines 304-306: the words that make any line holding them header-like.
\* No other word used here contains one of them.
section_indicators ==
    {"summary", "experience", "education", "skills", "responsibilities",
     "requirements", "qualifications"}

\* SectionDetector._is_header_line (lines 275-310).
_is_header_line(line) ==
    IF line = <<>> THEN FALSE
    ELSE IF LineLen(line) > 80 THEN FALSE
    ELSE IF Len(line) > 6 THEN FALSE
    ELSE IF IsUpper(line) THEN TRUE
    ELSE IF IsTitle(line) /\ Len(line) <= 4 THEN TRUE
    ELSE IF line[Len(line)].s = ":" THEN TRUE
    ELSE IF line[1].c = "n" /\ Len(line) <= 3 THEN TRUE
    ELSE \E i \in 1..Len(line) : line[i].w \in section_indicators

\* pattern.search(line) for a pattern that is a run of words, each one of a
\* set of alternatives, with only white space between them; the patterns
\* ignore case.
PatternFound(pattern, line) ==
    \E i \in 1..(Len(line) - Len(pattern) + 1) :
        /\ \A k \in 1..Len(pattern) : line[i + k - 1].w \in pattern[k]
        /\ \A k \in 1..(Len(pattern) - 1) : line[i + k - 1].s = ""

\* CV_SECTION_PATTERNS (lines 153-205) in the dict's order.  An optional
\* prefix or suffix of a pattern does not change what it finds and is left
\* out, as is a pattern that needs a word another pattern of the same
\* section type finds alone.
CV_SECTION_PATTERNS ==
    << <<"summary", {<<{"summary"}>>, <<{"profile"}>>, <<{"objective"}>>,
                     <<{"about"}, {"me"}>>,
                     <<{"personal"}, {"statement"}>>}>>,
       <<"skills", {<<{"skills"}>>, <<{"competencies"}>>, <<{"expertise"}>>,
                    <<{"proficiencies"}>>, <<{"technologies"}>>}>>,
       <<"experience", {<<{"experience"}>>, <<{"employment"}>>,
                        <<{"career", "work"}, {"history"}>>,
                        <<{"professional"}, {"background"}>>}>>,
       <<"education", {<<{"education", "educational"}>>,
                       <<{"academic"}, {"background", "qualifications"}>>,
                       <<{"degree", "degrees"}>>, <<{"qualifications"}>>}>>,
       <<"certifications", {<<{"certification", "certifications"}>>,
                            <<{"credentials"}>>,
                            <<{"accreditation", "accreditations"}>>}>>,
       <<"projects", {<<{"project", "projects"}>>, <<{"portfolio"}>>,
                      <<{"achievement", "achievements"}>>}>>,
       <<"contact", {<<{"contact"}>>,
                     <<{"personal"}, {"information"}>>}>> >>

\* JD_SECTION_PATTERNS (lines 208-262) in the dict's order.
JD_SECTION_PATTERNS ==
    << <<"overview", {<<{"overview"}>>, <<{"description"}>>,
                      <<{"about"}, {"the"}, {"role", "position", "job"}>>,
                      <<{"the"}, {"role"}>>,
                      <<{"position"}, {"summary"}>>}>>,
       <<"responsibilities", {<<{"responsibilities"}>>, <<{"duties"}>>,
                              <<{"what"}, {"you'll"}, {"do"}>>,
                              <<{"what"}, {"you"}, {"will"}, {"do"}>>,
                              <<{"your"}, {"role"}>>,
                              <<{"day"}, {"to"}, {"day"}>>}>>,
       <<"requirements", {<<{"requirement", "requirements"}>>,
                          <<{"must"}, {"have"}>>,
                          <<{"required", "essential"},
                            {"skill", "skills", "qualification",
                             "qualifications", "experience", "criteria"}>>,
                          <<{"what"}, {"you", "you'll"}, {"need"}>>,
                          <<{"what"}, {"we", "we're"}, {"looking"},
                            {"for"}>>,
                          <<{"you"}, {"should"}, {"have"}>>}>>,
       <<"preferred", {<<{"nice"}, {"to"}, {"have"}>>, <<{"preferred"}>>,
                       <<{"bonus"}>>, <<{"desirable"}>>,
                       <<{"plus"}, {"point", "points"}>>,
                       <<{"additional"},
                         {"skill", "skills", "qualification",
                          "qualifications"}>>,
                       <<{"ideal", "ideally"}>>}>>,
       <<"qualifications", {<<{"qualification", "qualifications"}>>,
                            <<{"education", "educational"}>>,
                            <<{"experience"}, {"required"}>>}>>,
       <<"benefits", {<<{"benefit", "benefits"}>>, <<{"perk", "perks"}>>,
                      <<{"compensation"}>>,
                      <<{"what"}, {"we"}, {"offer"}>>,
                      <<{"why"}, {"join"}, {"us"}>>}>>,
       <<"about", {<<{"about"}, {"us"}>>,
                   <<{"about"}, {"the", "our"}, {"company"}>>,
                   <<{"company"}, {"overview", "description", "background"}>>,
                   <<{"who"}, {"we"}, {"are"}>>,
                   <<{"our"}, {"mission", "story", "culture"}>>}>> >>

\* A matcher under which every header-like line names a section, an
\* unknown one when no pattern is found.
MatchOrUnknown(line, patterns) ==
    LET found == {k \in 1..Len(patterns) :
                     \E pattern \in patterns[k][2] :
                         PatternFound(pattern, line)}
    IN  IF found = {} THEN "unknown"
        ELSE patterns[CHOOSE k \in found : \A j \in found : k <= j][1]

\* SectionDetector._match_section_type (lines 312-318): the first section
\* type, in the dict's order, one of whose patterns is found; None if none.
RECURSIVE _match_section_type(_, _)
_match_section_type(line, patterns) ==
    IF patterns = <<>> THEN None
    ELSE IF \E pattern \in Head(patterns)[2] : PatternFound(pattern, line)
    THEN Head(patterns)[1]
    ELSE _match_section_type(line, Tail(patterns))

\* A section that ends on the line it starts with.
SectionOfOneLine(section_type, title, content, start_line, end_line) ==
    [section_type |-> section_type, title |-> title, content |-> content,
     start_line |-> start_line, end_line |-> start_line]

\* Section (lines 82-90): content is the list of the lines joined by '\n'.
Section(section_type, title, content, start_line, end_line) ==
    [section_type |-> section_type, title |-> title, content |-> content,
     start_line |-> start_line, end_line |-> end_line]

\* The loop of detect_cv_sections and detect_jd_sections (lines 328-353 and
\* 375-397) from line number i on, and the flush after it (lines 355-363
\* and 399-407).  Line numbers count from 0 as in the source.
RECURSIVE DetectSections(_, _, _, _, _, _, _)
DetectSections(lines, i, patterns, sections, current_section, current_content, current_start) ==
    IF i >= Len(lines)
    THEN IF current_content # <<>> \/ current_section # None
         THEN Append(sections,
                     Section(IF current_section # None
                             THEN current_section ELSE "unknown",
                             lines[current_start + 1], current_content,
                             current_start, Len(lines) - 1))
         ELSE sections
    ELSE IF /\ _is_header_line(lines[i + 1])
            /\ _match_section_type(lines[i + 1], patterns) # None
    THEN DetectSections(
             lines, i + 1, patterns,
             IF current_section # None \/ current_content # <<>>
             THEN Append(sections,
                         Section(IF current_section # None
                                 THEN current_section ELSE "unknown",
                                 lines[current_start + 1], current_content,
                                 current_start, i - 1))
             ELSE sections,
             _match_section_type(lines[i + 1], patterns), <<>>, i)
    ELSE DetectSections(lines, i + 1, patterns, sections, current_section,
                        Append(current_content, lines[i + 1]),
                        current_start)

\* A detector that returns no section for the empty text.
DetectCvSectionsOfContent(text) ==
    IF text = << <<>> >> THEN <<>>
    ELSE DetectSections(text, 0, CV_SECTION_PATTERNS, <<>>, None, <<>>, 0)

\* SectionDetector.detect_cv_sections (lines 320-365).
detect_cv_sections(text) ==
    DetectSections(text, 0, CV_SECTION_PATTERNS, <<>>, None, <<>>, 0)

\* SectionDetector.detect_jd_sections (lines 367-409).
detect_jd_sections(text) ==
    DetectSections(text, 0, JD_SECTION_PATTERNS, <<>>, None, <<>>, 0)

-----------------------------------------------------------------------------
(* entity_taxonomy.py and EntityExtractor.  A taxonomy term is the list of *)
(* its words; the patterns are \bterm\b, ignoring case.  Each set is given *)
(* as a list: the order in which Python iterates a set of strings is fixed *)
(* within one process and differs between processes.                       *)

\* Terms of HARD_SKILLS (lines 11-117), SOFT_SKILLS (122-165),
\* CERTIFICATIONS (170-210), METHODOLOGIES (215-249) and DOMAINS (254-292).
HARD_SKILLS == << <<"python">>, <<"aws">>, <<"docker">>, <<"etl">> >>
SOFT_SKILLS == << <<"leadership">> >>
CERTIFICATIONS == << <<"aws", "certified">> >>
METHODOLOGIES == << <<"etl">>, <<"agile">> >>
DOMAINS == << <<"fintech">> >>

\* Words of ACTION_VERBS (lines 345-375); no word used here has one of
\* them as a proper prefix or suffix.
ACTION_VERBS == {"led", "built", "developed", "improved", "delivered"}

\* The nouns of the METRIC_PATTERNS (lines 380-388) that count something.
MetricNouns ==
    {"user", "users", "customer", "customers", "client", "clients",
     "engineer", "engineers", "developer", "developers",
     "project", "projects", "application", "applications",
     "system", "systems"}

Reverse(seq) == [i \in 1..Len(seq) |-> seq[Len(seq) + 1 - i]]

\* The iteration order of a taxonomy set in this process.
Iterate(terms, hash_order) ==
    IF hash_order = "reverse" THEN Reverse(terms) ELSE terms

\* The words of one line with the character offset at which each starts;
\* offset is the offset of the line's first character and ln its number.
RECURSIVE LineEntries(_, _, _)
LineEntries(line, ln, offset) ==
    IF line = <<>> THEN <<>>
    ELSE <<[tok |-> Head(line), start |-> offset, ln |-> ln]>>
         \o LineEntries(Tail(line), ln,
                        offset + Len(Head(line).w) + Len(Head(line).s) + 1)

\* The words of '\n'.join(lines) from line number ln on.
RECURSIVE TextEntries(_, _, _)
TextEntries(lines, ln, offset) ==
    IF ln > Len(lines) THEN <<>>
    ELSE LineEntries(lines[ln], ln, offset)
         \o TextEntries(lines, ln + 1, offset + LineLen(lines[ln]) + 1)

\* len('\n'.join(lines)).
RECURSIVE CharLen(_)
CharLen(lines) ==
    IF lines = <<>> THEN 0
    ELSE LineLen(Head(lines)) + (IF Len(lines) > 1 THEN 1 ELSE 0)
         + CharLen(Tail(lines))

\* A match of \bterm\b begins at word p: the words agree and only a single
\* space separates them.
TermAt(flat, p, term) ==
    /\ p + Len(term) - 1 <= Len(flat)
    /\ \A k \in 1..Len(term) : flat[p + k - 1].tok.w = term[k]
    /\ \A k \in 1..(Len(term) - 1) :
          /\ flat[p + k - 1].tok.s = ""
          /\ flat[p + k].ln = flat[p].ln

\* pattern.finditer(text): where the matches begin, leftmost first.
Occurrences(flat, term) ==
    SelectSeq([p \in 1..Len(flat) |-> p], LAMBDA p : TermAt(flat, p, term))

MatchStart(flat, p) == flat[p].start
MatchEnd(flat, p, term) ==
    flat[p + Len(term) - 1].start + Len(flat[p + Len(term) - 1].tok.w)

\* match.group(): the words as written.
RECURSIVE Spelling(_, _, _)
Spelling(flat, p, n) ==
    IF n = 1 THEN Text(flat[p].tok.w, flat[p].tok.c)
    ELSE Text(flat[p].tok.w \o " " \o Spelling(flat, p + 1, n - 1).w,
              flat[p].tok.c \o Spelling(flat, p + 1, n - 1).c)

\* _get_context (lines 447-451) as the bounds of text[start:end].
ContextStart(match_start, window) ==
    IF match_start - window > 0 THEN match_start - window ELSE 0
ContextEnd(chars, match_end, window) ==
    IF match_end + window < chars THEN match_end + window ELSE chars

\* Lines 475-477: an action verb lies whole within text[lo:hi].
ActionVerbIn(flat, lo, hi) ==
    \E q \in 1..Len(flat) :
        /\ flat[q].tok.w \in ACTION_VERBS
        /\ flat[q].start >= lo
        /\ flat[q].start + Len(flat[q].tok.w) <= hi

\* The singular form the pattern needs of a counted noun: users? is found
\* as soon as "user" is.
MetricStems ==
    {"user", "customer", "client", "engineer", "developer", "project",
     "application", "system"}
StemLen(w) == IF w \in MetricStems THEN Len(w) ELSE Len(w) - 1

\* Lines 469-473: a metric pattern is found within text[lo:hi], a number
\* with a percent sign or a number before a counted noun.
MetricIn(flat, lo, hi) ==
    \E q \in 1..Len(flat) :
        /\ flat[q].tok.c = "n"
        /\ flat[q].start + Len(flat[q].tok.w) - 1 >= lo
        /\ \/ /\ flat[q].tok.s = "%"
              /\ flat[q].start + Len(flat[q].tok.w) + 1 <= hi
           \/ /\ flat[q].tok.s = ""
              /\ q < Len(flat)
              /\ flat[q + 1].tok.w \in MetricNouns
              /\ flat[q + 1].start + StemLen(flat[q + 1].tok.w) <= hi

\* A bonus for the experience section alone.
SectionBonusExperienceOnly(section_type) ==
    IF section_type = "experience" THEN 20 ELSE 0

\* Lines 459-467: the bonus of the section, in hundredths.
SectionBonus(section_type) ==
    CASE section_type = "experience" -> 20
      [] section_type = "projects" -> 15
      [] section_type = "summary" -> 10
      [] OTHER -> 0

\* EntityExtractor._calculate_evidence_strength (lines 453-479), in
\* hundredths; chars is len(text).
_calculate_evidence_strength(flat, chars, section_type, match_start, match_end) ==
    LET lo == ContextStart(match_start, 100)
        hi == ContextEnd(chars, match_end, 100)
        strength == 100 + SectionBonus(section_type)
                    + (IF MetricIn(flat, lo, hi) THEN 20 ELSE 0)
                    + (IF ActionVerbIn(flat, lo, hi) THEN 10 ELSE 0)
    IN  IF strength < 200 THEN strength ELSE 200

\* What extract_entities has gathered so far: the list and the seen set.
Gathered(entities, seen) == [entities |-> entities, seen |-> seen]

\* A loop body that appends an entity for every match.
AddMatchUnseen(g, flat, chars, term, entity_type, section_type, fixed, p) ==
    Gathered(
        Append(g.entities,
               Entity(Spelling(flat, p, Len(term)), entity_type, section_type,
                      IF fixed >= 0 THEN fixed
                      ELSE _calculate_evidence_strength(
                               flat, chars, section_type,
                               MatchStart(flat, p),
                               MatchEnd(flat, p, term)))),
        g.seen \cup {<<term, entity_type>>})

\* The body of the loops over finditer (lines 491-503 and the like): the
\* match beginning at word p adds an entity unless its key was seen.  fixed
\* is the evidence strength the loop assigns, or -1 where it is computed.
AddMatch(g, flat, chars, term, entity_type, section_type, fixed, p) ==
    IF <<term, entity_type>> \in g.seen THEN g
    ELSE Gathered(
             Append(g.entities,
                    Entity(Spelling(flat, p, Len(term)), entity_type,
                           section_type,
                           IF fixed >= 0 THEN fixed
                           ELSE _calculate_evidence_strength(
                                    flat, chars, section_type,
                                    MatchStart(flat, p),
                                    MatchEnd(flat, p, term)))),
             g.seen \cup {<<term, entity_type>>})

\* for match in pattern.finditer(text).
RECURSIVE AddMatches(_, _, _, _, _, _, _, _)
AddMatches(g, flat, chars, term, entity_type, section_type, fixed, occ) ==
    IF occ = <<>> THEN g
    ELSE AddMatches(AddMatch(g, flat, chars, term, entity_type, section_type,
                             fixed, Head(occ)),
                    flat, chars, term, entity_type, section_type, fixed,
                    Tail(occ))

\* for term in one taxonomy set.
RECURSIVE AddTerms(_, _, _, _, _, _, _)
AddTerms(g, flat, chars, terms, entity_type, section_type, fixed) ==
    IF terms = <<>> THEN g
    ELSE AddTerms(AddMatches(g, flat, chars, Head(terms), entity_type,
                             section_type, fixed,
                             Occurrences(flat, Head(terms))),
                  flat, chars, Tail(terms), entity_type, section_type, fixed)

\* EntityExtractor.extract_entities (lines 481-572) on the lines of a text;
\* section_type is the section's value, None for a call without one.
extract_entities(text, section_type, hash_order) ==
    AddTerms(
      AddTerms(
        AddTerms(
          AddTerms(
            AddTerms(Gathered(<<>>, {}), TextEntries(text, 1, 0),
                     CharLen(text), Iterate(HARD_SKILLS, hash_order),
                     "hard_skill", section_type, -1),
            TextEntries(text, 1, 0), CharLen(text),
            Iterate(SOFT_SKILLS, hash_order), "soft_skill", section_type, -1),
          TextEntries(text, 1, 0), CharLen(text),
          Iterate(CERTIFICATIONS, hash_order), "certification", section_type,
          150),
        TextEntries(text, 1, 0), CharLen(text),
        Iterate(METHODOLOGIES, hash_order), "methodology", section_type, 100),
      TextEntries(text, 1, 0), CharLen(text), Iterate(DOMAINS, hash_order),
      "domain", section_type, 100).entities

\* The numbers used, as int(group) reads them.
NumberValue(w) ==
    CASE w = "3" -> 3 [] w = "5" -> 5 [] w = "6" -> 6 [] w = "7" -> 7
      [] w = "10" -> 10 [] w = "40" -> 40 [] OTHER -> 0

YearWords == {"year", "years", "yr", "yrs"}

\* The words made of the characters of the class [-to] alone.
RangeWords == {"to"}

\* Only white space separates the word from the next one.
Spaced(entry) == entry.tok.s = ""

\* YEARS_EXPERIENCE_PATTERNS (entity_taxonomy.py:325-340): match.groups()
\* of the match of pattern k that begins at word q, as numbers; no group
\* where the pattern has no match there.  White space in the patterns
\* includes the line break.
YearsCaptured(flat, k, q) ==
    LET n == Len(flat)
        w(j) == flat[j].tok.w
        isnum(j) == j <= n /\ flat[j].tok.c = "n"
        isyear(j) == j <= n /\ w(j) \in YearWords
        val(j) == NumberValue(w(j))
        p1 == /\ isnum(q) /\ flat[q].tok.s \in {"", "+"}
              /\ isyear(q + 1) /\ Spaced(flat[q + 1])
              /\ \/ q + 2 <= n /\ w(q + 2) \in {"experience", "exp"}
                 \/ /\ q + 3 <= n /\ w(q + 2) = "of" /\ Spaced(flat[q + 2])
                    /\ w(q + 3) \in {"experience", "exp"}
        p2 == /\ \/ w(q) \in {"minimum", "min"} /\ Spaced(flat[q])
                 \/ /\ w(q) = "least" /\ Spaced(flat[q]) /\ q > 1
                    /\ w(q - 1) = "at" /\ Spaced(flat[q - 1])
                    /\ flat[q - 1].ln = flat[q].ln
              /\ isnum(q + 1) /\ Spaced(flat[q + 1]) /\ isyear(q + 2)
        p3word == /\ isnum(q) /\ Spaced(flat[q])
                  /\ q + 3 <= n /\ w(q + 1) \in RangeWords
                  /\ Spaced(flat[q + 1])
                  /\ isnum(q + 2) /\ Spaced(flat[q + 2]) /\ isyear(q + 3)
        p3dash == /\ isnum(q) /\ flat[q].tok.s = "-"
                  /\ isnum(q + 1) /\ Spaced(flat[q + 1]) /\ isyear(q + 2)
        p4 == /\ isnum(q) /\ Spaced(flat[q])
              /\ isyear(q + 1) /\ Spaced(flat[q + 1])
              /\ \/ /\ q + 2 <= n
                    /\ w(q + 2) \in {"required", "needed", "necessary"}
                 \/ /\ q + 3 <= n /\ w(q + 2) \in {"experience", "exp"}
                    /\ Spaced(flat[q + 2])
                    /\ w(q + 3) \in {"required", "needed", "necessary"}
        p5 == /\ \/ w(q) = "over" /\ Spaced(flat[q])
                 \/ /\ w(q) = "than" /\ Spaced(flat[q]) /\ q > 1
                    /\ w(q - 1) = "more" /\ Spaced(flat[q - 1])
                    /\ flat[q - 1].ln = flat[q].ln
              /\ isnum(q + 1) /\ Spaced(flat[q + 1]) /\ isyear(q + 2)
    IN  CASE k = 1 /\ p1 -> <<val(q)>>
          [] k = 2 /\ p2 -> <<val(q + 1)>>
          [] k = 3 /\ p3word -> <<val(q), val(q + 2)>>
          [] k = 3 /\ p3dash -> <<val(q), val(q + 1)>>
          [] k = 4 /\ p4 -> <<val(q)>>
          [] k = 5 /\ p5 -> <<val(q + 1)>>
          [] OTHER -> <<>>

YearsPatterns == 5

\* The loop over the groups of one match (lines 591-595); max_years is -1
\* for None.
RECURSIVE MaxOfGroups(_, _)
MaxOfGroups(max_years, groups) ==
    IF groups = <<>> THEN max_years
    ELSE MaxOfGroups(IF max_years = -1 \/ Head(groups) > max_years
                     THEN Head(groups) ELSE max_years,
                     Tail(groups))

\* pattern.finditer(text) for pattern k: where its matches begin, leftmost
\* first.
YearsMatchesOf(flat, k) ==
    SelectSeq([q \in 1..Len(flat) |-> q],
              LAMBDA q : YearsCaptured(flat, k, q) # <<>>)

\* for match in pattern.finditer(text) (line 589).
RECURSIVE MaxOfMatches(_, _, _, _)
MaxOfMatches(max_years, flat, k, matches) ==
    IF matches = <<>> THEN max_years
    ELSE MaxOfMatches(
             MaxOfGroups(max_years, YearsCaptured(flat, k, Head(matches))),
             flat, k, Tail(matches))

\* for pattern in self._exp_patterns (line 588), from pattern k on.
RECURSIVE MaxOfPatterns(_, _, _)
MaxOfPatterns(max_years, flat, k) ==
    IF k > YearsPatterns THEN max_years
    ELSE MaxOfPatterns(
             MaxOfMatches(max_years, flat, k, YearsMatchesOf(flat, k)),
             flat, k + 1)

\* A variant that keeps the first number captured.
ExtractFirstYears(text) ==
    LET flat == TextEntries(text, 1, 0)
        found == {<<k, q>> \in (1..YearsPatterns) \X (1..Len(flat)) :
                     YearsCaptured(flat, k, q) # <<>>}
    IN  IF found = {} THEN -1
        ELSE LET first == CHOOSE m \in found :
                              \A o \in found :
                                  \/ m[1] < o[1]
                                  \/ m[1] = o[1] /\ m[2] <= o[2]
             IN  Head(YearsCaptured(flat, first[1], first[2]))

\* EntityExtractor.extract_years_experience (lines 584-597): None (-1
\* here) unless a group was captured.
extract_years_experience(text) ==
    MaxOfPatterns(-1, TextEntries(text, 1, 0), 1)

-----------------------------------------------------------------------------
(* document_parser.py: DocumentParser.                                     *)

\* The extend of lines 623 and 658 over all sections: the entities of each
\* section's content, in order.
RECURSIVE SectionEntities(_, _)
SectionEntities(sections, hash_order) ==
    IF sections = <<>> THEN <<>>
    ELSE extract_entities(Head(sections).content,
                          Head(sections).section_type, hash_order)
         \o SectionEntities(Tail(sections), hash_order)

\* Lines 625-629 and 666-670: a full-text entity is appended unless the
\* list holds an equal one.
RECURSIVE AddFullText(_, _)
AddFullText(all_entities, full_text_entities) ==
    IF full_text_entities = <<>> THEN all_entities
    ELSE AddFullText(IF EntityIn(Head(full_text_entities), all_entities)
                     THEN all_entities
                     ELSE Append(all_entities, Head(full_text_entities)),
                     Tail(full_text_entities))

\* A classification that takes every titled section for a required one.
IsRequiredSectionLoose(section_type) ==
    section_type \in {"requirements", "qualifications", "preferred"}

\* Line 661.
IsRequiredSection(section_type) ==
    section_type \in {"requirements", "qualifications"}

\* Line 663: reached only when the test of line 661 is false.
IsPreferredSection(section_type) ==
    ~IsRequiredSection(section_type) /\ section_type = "preferred"

\* Lines 660-664 over all sections.
RECURSIVE ClassifiedEntities(_, _, _)
ClassifiedEntities(sections, required, hash_order) ==
    IF sections = <<>> THEN <<>>
    ELSE (IF (required /\ IsRequiredSection(Head(sections).section_type))
             \/ (~required /\ IsPreferredSection(Head(sections).section_type))
          THEN extract_entities(Head(sections).content,
                                Head(sections).section_type, hash_order)
          ELSE <<>>)
         \o ClassifiedEntities(Tail(sections), required, hash_order)

\* What a parse returns: ParsedCV (lines 93-99) and ParsedJD (lines 119-127)
\* without raw_text and the job titles.  years is years_experience or
\* years_required, -1 for None; a ParsedCV has the two JD lists empty.
Parsed(sections, entities, required_entities, preferred_entities, years) ==
    [sections |-> sections, entities |-> entities,
     required_entities |-> required_entities,
     preferred_entities |-> preferred_entities, years |-> years]

\* DocumentParser.parse_cv (lines 611-641).
parse_cv(text, hash_order) ==
    Parsed(detect_cv_sections(text),
           AddFullText(SectionEntities(detect_cv_sections(text), hash_order),
                       extract_entities(text, None, hash_order)),
           <<>>, <<>>, extract_years_experience(text))

\* DocumentParser.parse_jd (lines 643-684).
parse_jd(text, hash_order) ==
    Parsed(detect_jd_sections(text),
           AddFullText(SectionEntities(detect_jd_sections(text), hash_order),
                       extract_entities(text, None, hash_order)),
           ClassifiedEntities(detect_jd_sections(text), TRUE, hash_order),
           ClassifiedEntities(detect_jd_sections(text), FALSE, hash_order),
           extract_years_experience(text))

-----------------------------------------------------------------------------
(* SpecParse: one call on a DocumentParser, which keeps no state between   *)
(* calls.  The text is any list of one to MaxLines lines of a catalog: a   *)
(* blank line, section headers, header-like lines that name no section,    *)
(* content lines, a long line, and the CV and JD lines of Scenario A.      *)

MaxLines == 3

\* 104 characters of text holding no term, verb, number or header word.
Filler ==
    "lorem ipsum dolor sit amet consectetur adipiscing elit sed do eiusmod tempor incididunt ut labore et dolo"

ScenarioACv ==
    <<Tok("worked", "T", ""), Tok("with", "l", ""), Tok("python", "T", ""),
      Tok("for", "l", ""), Tok("6", "n", ""), Tok("years", "l", "."),
      Tok("aws", "U", ""), Tok("certified", "l", ".")>>

ScenarioAJd ==
    <<Tok("5", "n", "+"), Tok("years", "l", ""), Tok("experience", "l", ""),
      Tok("with", "l", ""), Tok("python", "T", ""), Tok("and", "l", ""),
      Tok("aws", "U", ""), Tok("required", "l", "."), Tok("nice", "T", ""),
      Tok("to", "l", ""), Tok("have", "l", ":"), Tok("docker", "T", ".")>>

CvLines ==
    {<<>>,
     <<Tok("skills", "U", "")>>,
     <<Tok("experience", "U", "")>>,
     <<Tok("python", "T", ","), Tok("aws", "U", "")>>,
     <<Tok("senior", "T", ""), Tok("engineer", "T", "")>>,
     <<Tok("built", "l", ""), Tok("python", "l", ""), Tok("apps", "l", "")>>,
     <<Tok(Filler, "l", ".")>>,
     ScenarioACv}

JdHeaderLines ==
    {<<Tok("requirements", "T", ":")>>,
     <<Tok("aws", "U", ""), Tok("qualifications", "T", ":")>>,
     <<Tok("nice", "T", ""), Tok("to", "l", ""), Tok("have", "l", ":")>>,
     <<Tok("about", "T", ""), Tok("us", "T", "")>>}

JdContentLines ==
    {<<Tok("python", "T", ""), Tok("and", "l", ""), Tok("aws", "U", "")>>,
     <<Tok("docker", "l", "")>>}

JdLines ==
    {<<>>, <<Tok("tech", "T", ""), Tok("lead", "T", "")>>, ScenarioAJd}
    \cup JdHeaderLines \cup JdContentLines

TextsOf(lines) == UNION {[1..n -> lines] : n \in 1..MaxLines}

\* Lines that put a metric and an action verb near a skill, or far from it
\* across the long line.
EvidenceLines ==
    {<<Tok("led", "T", ""), Tok("5", "n", ""), Tok("engineers", "l", ".")>>,
     <<Tok("leadership", "T", ""), Tok("up", "l", ""), Tok("40", "n", "%")>>}

\* Lines on years of experience: a range, the keywords of each pattern, a
\* number of years no pattern takes, zero years, and a range that a line
\* break separates from its unit.
YearLines ==
    {<<Tok("5", "n", "-"), Tok("7", "n", ""), Tok("years", "l", "")>>,
     <<Tok("minimum", "T", ""), Tok("3", "n", ""), Tok("years", "l", "")>>,
     <<Tok("10", "n", ""), Tok("yrs", "l", ""), Tok("of", "l", ""),
       Tok("experience", "l", "")>>,
     <<Tok("over", "l", ""), Tok("6", "n", ""), Tok("yrs", "l", ".")>>,
     <<Tok("for", "l", ""), Tok("6", "n", ""), Tok("years", "l", ".")>>,
     <<Tok("0", "n", ""), Tok("years", "l", ""), Tok("exp", "l", "")>>,
     <<Tok("3", "n", ""), Tok("to", "l", ""), Tok("5", "n", "")>>,
     <<Tok("years", "T", ""), Tok("required", "l", "")>>}

\* The texts of two such lines, which parse_cv and parse_jd are given.
YearTexts == {<<first, second>> : first \in YearLines, second \in YearLines}

\* The lines extract_entities is given: the CV lines that name a term or
\* keep terms apart, and the evidence lines.
EntityLines ==
    {<<>>,
     <<Tok("python", "T", ","), Tok("aws", "U", "")>>,
     <<Tok("built", "l", ""), Tok("python", "l", ""), Tok("apps", "l", "")>>,
     <<Tok(Filler, "l", ".")>>,
     ScenarioACv}
    \cup EvidenceLines

\* The values of section_type extract_entities is called with: no section
\* and the CV sections with and without a bonus.
EntitySectionTypes == {None, "skills", "experience", "projects", "summary"}

\* The JD texts parsed: the short ones and those of two titled sections of
\* one line each.
JdTexts ==
    TextsOf(JdLines)
    \cup {<<h1, c1, h2, c2>> : h1 \in JdHeaderLines, c1 \in JdContentLines,
                               h2 \in JdHeaderLines, c2 \in JdContentLines}

NoResult == Parsed(<<>>, <<>>, <<>>, <<>>, -1)

InitParse ==
    /\ doc \in [pc : {"ready"}, hash_order : {"forward", "reverse"},
                op : {"none"}, text : {<< <<>> >>}, section_type : {None},
                result : {NoResult}]
    /\ hyb = Idle /\ run = Idle /\ scorer = Idle /\ opt = Idle

Called(op, text, section_type, result) ==
    [doc EXCEPT !.pc = "done", !.op = op, !.text = text,
                !.section_type = section_type, !.result = result]

DetectCvSections ==
    /\ doc.pc = "ready"
    /\ \E text \in TextsOf(CvLines) :
          doc' = Called("detect_cv_sections", text, None,
                        [NoResult EXCEPT
                           !.sections = detect_cv_sections(text)])
    /\ UNCHANGED <<hyb, run, scorer, opt>>

DetectJdSections ==
    /\ doc.pc = "ready"
    /\ \E text \in TextsOf(JdLines) :
          doc' = Called("detect_jd_sections", text, None,
                        [NoResult EXCEPT
                           !.sections = detect_jd_sections(text)])
    /\ UNCHANGED <<hyb, run, scorer, opt>>

ExtractEntities ==
    /\ doc.pc = "ready"
    /\ \E text \in TextsOf(EntityLines),
          section_type \in EntitySectionTypes :
          doc' = Called("extract_entities", text, section_type,
                        [NoResult EXCEPT
                           !.entities = extract_entities(
                                            text, section_type,
                                            doc.hash_order)])
    /\ UNCHANGED <<hyb, run, scorer, opt>>

ExtractYearsExperience ==
    /\ doc.pc = "ready"
    /\ \E text \in TextsOf(YearLines) :
          doc' = Called("extract_years_experience", text, None,
                        [NoResult EXCEPT
                           !.years = extract_years_experience(text)])
    /\ UNCHANGED <<hyb, run, scorer, opt>>

ParseCv ==
    /\ doc.pc = "ready"
    /\ \E text \in TextsOf(CvLines) \cup YearTexts :
          doc' = Called("parse_cv", text, None,
                        parse_cv(text, doc.hash_order))
    /\ UNCHANGED <<hyb, run, scorer, opt>>

ParseJd ==
    /\ doc.pc = "ready"
    /\ \E text \in JdTexts \cup YearTexts :
          doc' = Called("parse_jd", text, None,
                        parse_jd(text, doc.hash_order))
    /\ UNCHANGED <<hyb, run, scorer, opt>>

NextParse ==
    \/ DetectCvSections
    \/ DetectJdSections
    \/ ExtractEntities
    \/ ExtractYearsExperience
    \/ ParseCv
    \/ ParseJd

SpecParse == InitParse /\ [][NextParse]_vars

\* The section patterns the call of the state used.
PatternsOf(op) ==
    IF op \in {"detect_cv_sections", "parse_cv"}
    THEN CV_SECTION_PATTERNS ELSE JD_SECTION_PATTERNS

\* Line number i (from 1) of the text is header-like and some pattern of
\* some known section type is found in it.
KnownHeader(text, i, patterns) ==
    /\ _is_header_line(text[i])
    /\ \E k \in 1..Len(patterns) :
          \E pattern \in patterns[k][2] : PatternFound(pattern, text[i])

\* Line number i is header-like and names no known section.
UnmatchedHeader(text, i, patterns) ==
    _is_header_line(text[i]) /\ ~KnownHeader(text, i, patterns)

SectionsDetected ==
    doc.pc = "done" /\ doc.op \in {"detect_cv_sections", "detect_jd_sections"}

\* C5: in detect_cv_sections and detect_jd_sections a header-like line that
\* matches no known section pattern never starts a section.  The sections
\* are as many as the header-like lines that match a known pattern, plus a
\* leading unknown section when lines precede the first of those; and the
\* unmatched header-like line is part of the content of the section open at
\* its place, the one whose lines span it.
C5_UnmatchedHeaderKeepsSection ==
    SectionsDetected =>
        LET text == doc.text
            secs == doc.result.sections
            patterns == PatternsOf(doc.op)
            known == {i \in 1..Len(text) : KnownHeader(text, i, patterns)}
        IN  /\ Len(secs) = Cardinality(known) + (IF 1 \in known THEN 0 ELSE 1)
            /\ 1 \notin known => secs[1].section_type = "unknown"
            /\ \A i \in 1..Len(text) :
                  UnmatchedHeader(text, i, patterns) =>
                      /\ \A k \in 1..Len(secs) :
                            secs[k].start_line = i - 1 => k = 1 /\ i = 1
                      /\ \E k \in 1..Len(secs) :
                            /\ secs[k].start_line <= i - 1
                            /\ i - 1 <= secs[k].end_line
                            /\ \E j \in 1..Len(secs[k].content) :
                                  secs[k].content[j] = text[i]

C5_Witness ==
    /\ SectionsDetected
    /\ Len(doc.result.sections) = 2
    /\ \E i \in 2..Len(doc.text) :
          /\ UnmatchedHeader(doc.text, i, PatternsOf(doc.op))
          /\ KnownHeader(doc.text, i - 1, PatternsOf(doc.op))
          /\ doc.result.sections[2].content # <<>>
          /\ doc.result.sections[2].content[1] = doc.text[i]

\* No two entities of the list are equal under (lowercased text, type).
NoEqualEntities(entities) ==
    \A i, j \in 1..Len(entities) :
        i # j => ~EntityEq(entities[i], entities[j])

\* C6: the entities list that parse_cv and parse_jd return is a deduplicated
\* union: no two of its entities are equal under (lowercased text,
\* entity_type), also when a term occurs in more than one section.
C6_EntitiesDeduplicated ==
    doc.pc = "done" /\ doc.op \in {"parse_cv", "parse_jd"} =>
        NoEqualEntities(doc.result.entities)

\* The (term, entity type) pairs extract_entities looks for, with the
\* evidence strength it assigns (-1: computed from the context).
TaxonomyPairs ==
    {<<HARD_SKILLS[i], "hard_skill", -1>> : i \in 1..Len(HARD_SKILLS)}
    \cup {<<SOFT_SKILLS[i], "soft_skill", -1>> : i \in 1..Len(SOFT_SKILLS)}
    \cup {<<CERTIFICATIONS[i], "certification", 150>> :
             i \in 1..Len(CERTIFICATIONS)}
    \cup {<<METHODOLOGIES[i], "methodology", 100>> :
             i \in 1..Len(METHODOLOGIES)}
    \cup {<<DOMAINS[i], "domain", 100>> : i \in 1..Len(DOMAINS)}

\* The words of a term joined by single spaces.
RECURSIVE TermText(_)
TermText(term) ==
    IF Len(term) = 1 THEN term[1]
    ELSE term[1] \o " " \o TermText(Tail(term))

\* The entity extract_entities is to build from the first occurrence of the
\* term in the text.
FirstOccurrenceEntity(text, section_type, pair) ==
    LET flat == TextEntries(text, 1, 0)
        p == Head(Occurrences(flat, pair[1]))
    IN  Entity(Spelling(flat, p, Len(pair[1])), pair[2], section_type,
               IF pair[3] >= 0 THEN pair[3]
               ELSE _calculate_evidence_strength(
                        flat, CharLen(text), section_type,
                        MatchStart(flat, p), MatchEnd(flat, p, pair[1])))

EntitiesExtracted == doc.pc = "done" /\ doc.op = "extract_entities"

EntitiesOfSections(sections, types, hash_order) ==
    SectionEntities(SelectSeq(sections,
                              LAMBDA sec : sec.section_type \in types),
                    hash_order)

JdParsed == doc.pc = "done" /\ doc.op = "parse_jd"

\* C8: in the ParsedJD that parse_jd returns, required_entities is exactly
\* the entities extracted from the sections of type requirements or
\* qualifications and preferred_entities exactly those extracted from the
\* sections of type preferred; an entity of another section type, unknown
\* included, or of the full-text pass alone is in neither list.
C8_RequiredAndPreferred ==
    JdParsed =>
        LET r == doc.result
        IN  /\ r.required_entities =
                  EntitiesOfSections(r.sections,
                                     {"requirements", "qualifications"},
                                     doc.hash_order)
            /\ r.preferred_entities =
                  EntitiesOfSections(r.sections, {"preferred"},
                                     doc.hash_order)
            /\ \A i \in 1..Len(r.entities) :
                  r.entities[i].section
                      \notin {"requirements", "qualifications", "preferred"}
                  => /\ \A j \in 1..Len(r.required_entities) :
                           r.required_entities[j] # r.entities[i]
                     /\ \A j \in 1..Len(r.preferred_entities) :
                           r.preferred_entities[j] # r.entities[i]

C8_Witness ==
    /\ JdParsed
    /\ doc.result.required_entities # <<>>
    /\ doc.result.preferred_entities # <<>>
    /\ \E i \in 1..Len(doc.result.entities) :
          doc.result.entities[i].section = None

-----------------------------------------------------------------------------
(* ats_optimizer.py: the stopwords of an ATSOptimizer and the keywords of  *)
(* a text.  Texts are the token texts of the parser above; a keyword is a  *)
(* lowercase word, a phrase a list of lowercase words.                     *)

\* Lines 33-44.
base_stopwords ==
    {"the", "a", "an", "and", "or", "but", "in", "on", "at", "to", "for",
     "of", "with", "by", "from", "as", "is", "was", "are", "were", "be",
     "been", "being", "have", "has", "had", "do", "does", "did", "will",
     "would", "could", "should", "may", "might", "must", "can", "this",
     "that", "these", "those", "i", "you", "he", "she", "it", "we", "they",
     "us", "them", "what", "which", "who", "when", "where", "why", "how",
     "all", "each", "every", "both", "few", "more", "most", "some", "such",
     "into", "through", "above", "below", "between", "under", "over",
     "out", "up", "down", "off", "then", "than", "so", "just", "also",
     "very", "too", "any", "only", "own", "same", "no", "not", "now"}

\* Lines 47-54.
ui_stopwords ==
    {"apply", "job", "save", "show", "view", "click", "here", "read",
     "more", "less", "back", "next", "previous", "search", "filter",
     "sort", "share", "print", "email", "download", "upload", "submit",
     "send", "post", "date", "ago", "day", "week", "month", "year",
     "new", "updated", "end", "start", "while", "during", "about",
     "our", "your", "their", "its", "my", "we", "us"}

\* Lines 57-77.
job_posting_stopwords ==
    {"responsibilities", "responsibility", "requirements", "requirement",
     "qualifications", "qualification", "preferred", "required", "must",
     "candidate", "candidates", "position", "role", "opportunity",
     "looking", "seeking", "hiring", "join", "team", "company",
     "ideal", "strong", "excellent", "good", "great", "best",
     "ability", "able", "skills", "skill", "experience", "experienced",
     "knowledge", "understanding", "familiar", "familiarity",
     "work", "working", "environment", "based", "including", "includes",
     "well", "within", "across", "using", "used", "use",
     "ensure", "ensuring", "provide", "providing", "support", "supporting",
     "develop", "developing", "development", "create", "creating",
     "manage", "managing", "management", "lead", "leading",
     "build", "building", "design", "designing", "implement", "implementing",
     "etc", "other", "others", "various", "multiple", "different",
     "minimum", "maximum", "least", "plus", "years", "year",
     "full", "time", "part", "remote", "onsite", "hybrid", "office",
     "salary", "benefits", "compensation", "package", "competitive",
     "equal", "employer", "employment", "applicants", "applicant"}

\* Lines 230-234.
company_suffixes ==
    {"ltd", "limited", "inc", "incorporated", "corp", "corporation",
     "llc", "plc", "group", "holdings", "company", "co"}

\* ' '.join(words).
RECURSIVE JoinWords(_)
JoinWords(words) ==
    IF Len(words) = 1 THEN words[1]
    ELSE words[1] \o " " \o JoinWords(Tail(words))

\* ATSOptimizer._add_company_variations (lines 220-235) as the new value of
\* self.dynamic_stopwords; company_name is the list of the name's words in
\* lowercase (company_name.lower().split()).
_add_company_variations(dynamic_stopwords, company_name) ==
    dynamic_stopwords
    \cup {JoinWords(company_name)}
    \cup {company_name[i] : i \in {k \in 1..Len(company_name) :
                                      Len(company_name[k]) > 2}}
    \cup company_suffixes

\* Lines 208-212: the stopwords after construction; an empty list stands for
\* a company_name of None or ''.
InitialStopwords(company_name) ==
    IF company_name # <<>> THEN _add_company_variations({}, company_name)
    ELSE {}

\* The patterns of lines 239-243 are searched with re.IGNORECASE, and their
\* literal words have no word boundaries: what matters of a word is how it
\* ends or begins.  Of the words of the texts scored here these end in
\* "company", "organization" or "employer", these in "join" or "at", and
\* these begin with "as", "in" or "for", and with "seeking", "looking" or
\* "hiring".
EndInCompany == {"company", "organization", "employer"}
EndInJoinOrAt == {"join", "at", "redhat"}
BeginWithAsInFor ==
    {"as", "in", "for", "asp.net", "assurance", "indicator",
     "infrastructure", "integrated", "integration", "intelligence",
     "interface", "investment"}
BeginWithSeeking == {"seeking", "looking", "hiring"}

\* A word that [A-Za-z\s&]+ can cover: letters only.
LetterWord(entry) == entry.tok.c # "n"

\* A '\n' follows the word at j.
EndsLine(text, flat, j) ==
    /\ flat[j].ln < Len(text)
    /\ j = Len(flat) \/ flat[j + 1].ln > flat[j].ln

Least(S) == CHOOSE j \in S : \A k \in S : j <= k

\* words[p..j] in lowercase.
WordsOf(flat, p, j) == [k \in 1..(j - p + 1) |-> flat[p + k - 1].tok.w]

\* Where ([A-Z][A-Za-z\s&]+?)(?:\n|\.|,) can end when it begins at word p:
\* letters and single spaces up to a word followed by '.', ',' or '\n'.
GroupEnds1(text, flat, p) ==
    {j \in p..Len(flat) :
        /\ \A k \in p..j : LetterWord(flat[k])
        /\ \A k \in p..(j - 1) :
              flat[k].tok.s = "" /\ ~EndsLine(text, flat, k)
        /\ \/ flat[j].tok.s \in {".", ","}
           \/ flat[j].tok.s = "" /\ EndsLine(text, flat, j)}

\* Where ([A-Z][A-Za-z\s&]+?)\s+(?:as|in|for) can end when it begins at p:
\* words parted by white space only, the next one beginning as|in|for.
GroupEnds2(flat, p) ==
    {j \in p..(Len(flat) - 1) :
        /\ \A k \in p..j : LetterWord(flat[k]) /\ flat[k].tok.s = ""
        /\ flat[j + 1].tok.w \in BeginWithAsInFor}

\* Where ^([A-Z][A-Za-z\s&]+?)\s+is\s+(?:seeking|looking|hiring) can end.
GroupEnds3(flat, p) ==
    {j \in p..(Len(flat) - 2) :
        /\ \A k \in p..j : LetterWord(flat[k]) /\ flat[k].tok.s = ""
        /\ flat[j + 1].tok.w = "is" /\ flat[j + 1].tok.s = ""
        /\ flat[j + 2].tok.w \in BeginWithSeeking}

\* The words before which each pattern's group can begin a match.
GroupStarts1(text, flat) ==
    {p \in 2..Len(flat) :
        /\ flat[p - 1].tok.w \in EndInCompany /\ flat[p - 1].tok.s = ":"
        /\ GroupEnds1(text, flat, p) # {}}
GroupStarts2(flat) ==
    {p \in 2..Len(flat) :
        /\ flat[p - 1].tok.w \in EndInJoinOrAt /\ flat[p - 1].tok.s = ""
        /\ GroupEnds2(flat, p) # {}}
GroupStarts3(flat) ==
    {p \in 1..Len(flat) :
        /\ p = 1 \/ flat[p - 1].ln < flat[p].ln
        /\ GroupEnds3(flat, p) # {}}

\* re.search(pattern, ..).group(1).strip().split() for the three patterns
\* in turn: the leftmost match and its shortest group, <<>> for no match.
PatternGroups(text, flat) ==
    <<IF GroupStarts1(text, flat) = {} THEN <<>>
      ELSE WordsOf(flat, Least(GroupStarts1(text, flat)),
                   Least(GroupEnds1(text, flat,
                                    Least(GroupStarts1(text, flat))))),
      IF GroupStarts2(flat) = {} THEN <<>>
      ELSE WordsOf(flat, Least(GroupStarts2(flat)),
                   Least(GroupEnds2(flat, Least(GroupStarts2(flat))))),
      IF GroupStarts3(flat) = {} THEN <<>>
      ELSE WordsOf(flat, Least(GroupStarts3(flat)),
                   Least(GroupEnds3(flat, Least(GroupStarts3(flat)))))>>

\* Lines 245-252: the first pattern whose match names at most four words;
\* <<>> for None.
RECURSIVE FirstCompany(_, _)
FirstCompany(groups, i) ==
    IF i > Len(groups) THEN <<>>
    ELSE IF groups[i] # <<>> /\ Len(groups[i]) <= 4 THEN groups[i]
    ELSE FirstCompany(groups, i + 1)

\* ATSOptimizer._extract_company_from_text (lines 237-252).
_extract_company_from_text(text) ==
    FirstCompany(PatternGroups(text, TextEntries(text, 1, 0)), 1)

\* ATSOptimizer.get_all_stopwords (lines 254-257).
get_all_stopwords(dynamic_stopwords) ==
    base_stopwords \cup ui_stopwords \cup job_posting_stopwords
    \cup dynamic_stopwords

\* _normalize_text (lines 259-272) on a word as written: '.js' becomes
\* 'js', '.net' 'dotnet' and 'ci/cd' 'cicd'.  The other words of the texts
\* scored here hold letters, digits and hyphens only and stay as they are
\* (tok.w is the lowercase spelling; the punctuation after a word becomes
\* a space).
NormalWord(w) ==
    CASE w = ".net" -> "dotnet"
      [] w = "asp.net" -> "aspdotnet"
      [] w = "ci/cd" -> "cicd"
      [] w = "angular.js" -> "angularjs"
      [] w = "express.js" -> "expressjs"
      [] w = "node.js" -> "nodejs"
      [] w = "react.js" -> "reactjs"
      [] w = "vue.js" -> "vuejs"
      [] OTHER -> w

_normalize_text(flat) ==
    [i \in 1..Len(flat) |-> [flat[i] EXCEPT !.tok.w = NormalWord(@)]]

\* Lines 298-306: re.findall(r'\b[a-z][a-z0-9\-]{1,}\b', normalized), a
\* word beginning with a letter and two characters long or more, without the
\* stopwords; flat is the normalized text.
Unigrams(flat, all_stopwords) ==
    LET kept == SelectSeq(flat, LAMBDA entry :
                    /\ LetterWord(entry)
                    /\ Len(entry.tok.w) >= 2
                    /\ entry.tok.w \notin all_stopwords)
    IN  [i \in 1..Len(kept) |-> kept[i].tok.w]

\* Lines 292-296: the stopwords after the company detection of a call on an
\* optimizer whose company_name is company_name.
DetectedStopwords(company_name, dynamic_stopwords, text) ==
    IF company_name = <<>> /\ _extract_company_from_text(text) # <<>>
    THEN _add_company_variations(dynamic_stopwords,
                                 _extract_company_from_text(text))
    ELSE dynamic_stopwords

\* ATSOptimizer.extract_keywords (lines 283-332) with auto_detect_company at
\* its default: the list of unigrams that the Counter counts, and the
\* instance's dynamic_stopwords after the call.
extract_keywords(company_name, dynamic_stopwords, text) ==
    [unigrams |->
         Unigrams(_normalize_text(TextEntries(text, 1, 0)),
                  get_all_stopwords(
                      DetectedStopwords(company_name, dynamic_stopwords,
                                        text))),
     dynamic_stopwords |->
         DetectedStopwords(company_name, dynamic_stopwords, text)]

\* The keys of Counter(words) in insertion order.
RECURSIVE CounterKeys(_, _)
CounterKeys(words, seen) ==
    IF words = <<>> THEN <<>>
    ELSE IF Head(words) \in seen THEN CounterKeys(Tail(words), seen)
    ELSE <<Head(words)>> \o CounterKeys(Tail(words), seen \cup {Head(words)})

CounterCount(words, w) == Cardinality({i \in 1..Len(words) : words[i] = w})

\* sorted(.., key=count, reverse=True) is stable: a key goes after the keys
\* counted at least as often.
RECURSIVE InsertByCount(_, _, _)
InsertByCount(sorted, w, words) ==
    IF sorted = <<>> THEN <<w>>
    ELSE IF CounterCount(words, Head(sorted)) >= CounterCount(words, w)
    THEN <<Head(sorted)>> \o InsertByCount(Tail(sorted), w, words)
    ELSE <<w>> \o sorted

RECURSIVE SortByCount(_, _, _)
SortByCount(keys, sorted, words) ==
    IF keys = <<>> THEN sorted
    ELSE SortByCount(Tail(keys), InsertByCount(sorted, Head(keys), words),
                     words)

FirstN(seq, n) == SubSeq(seq, 1, IF Len(seq) < n THEN Len(seq) ELSE n)

\* Counter(words).most_common(n), keys only.
most_common(words, n) ==
    FirstN(SortByCount(CounterKeys(words, {}), <<>>, words), n)

\* Line 767: most_common(20); lines 829-831: the first 15 of a list.
TopUnigrams == 20
ReportedKeywords == 15

\* abbreviation_map (lines 81-167) as pairs of an abbreviation and one of
\* its full forms, a full form being the list of its words as written.
abbreviation_map ==
    {<<"js", <<"javascript">> >>, <<"ts", <<"typescript">> >>,
     <<"py", <<"python">> >>, <<"rb", <<"ruby">> >>,
     <<"ml", <<"machine", "learning">> >>,
     <<"ai", <<"artificial", "intelligence">> >>,
     <<"dl", <<"deep", "learning">> >>,
     <<"nlp", <<"natural", "language", "processing">> >>,
     <<"cv", <<"computer", "vision">> >>,
     <<"aws", <<"amazon", "web", "services">> >>,
     <<"gcp", <<"google", "cloud", "platform">> >>,
     <<"gcp", <<"google", "cloud">> >>,
     <<"azure", <<"microsoft", "azure">> >>, <<"k8s", <<"kubernetes">> >>,
     <<"docker", <<"containerization">> >>,
     <<"docker", <<"containers">> >>,
     <<"ci", <<"continuous", "integration">> >>,
     <<"cd", <<"continuous", "deployment">> >>,
     <<"cd", <<"continuous", "delivery">> >>, <<"cicd", <<"ci/cd">> >>,
     <<"cicd", <<"continuous", "integration">> >>,
     <<"cicd", <<"continuous", "deployment">> >>, <<"api", <<"apis">> >>,
     <<"api", <<"rest", "api">> >>, <<"api", <<"restful">> >>,
     <<"sql", <<"mysql">> >>, <<"sql", <<"postgresql">> >>,
     <<"sql", <<"database">> >>, <<"nosql", <<"mongodb">> >>,
     <<"nosql", <<"dynamodb">> >>, <<"nosql", <<"non-relational">> >>,
     <<"db", <<"database">> >>, <<"db", <<"databases">> >>,
     <<"ui", <<"user", "interface">> >>,
     <<"ux", <<"user", "experience">> >>,
     <<"qa", <<"quality", "assurance">> >>, <<"qa", <<"testing">> >>,
     <<"pm", <<"project", "management">> >>,
     <<"pm", <<"product", "management">> >>, <<"scrum", <<"agile">> >>,
     <<"scrum", <<"sprint">> >>, <<"agile", <<"scrum">> >>,
     <<"agile", <<"kanban">> >>, <<"agile", <<"sprint">> >>,
     <<"oop", <<"object", "oriented", "programming">> >>,
     <<"oop", <<"object-oriented">> >>,
     <<"fp", <<"functional", "programming">> >>,
     <<"tdd", <<"test", "driven", "development">> >>,
     <<"tdd", <<"test-driven">> >>,
     <<"bdd", <<"behavior", "driven", "development">> >>,
     <<"saas", <<"software", "as", "a", "service">> >>,
     <<"paas", <<"platform", "as", "a", "service">> >>,
     <<"iaas", <<"infrastructure", "as", "a", "service">> >>,
     <<"rest", <<"restful">> >>, <<"rest", <<"rest", "api">> >>,
     <<"graphql", <<"graph", "ql">> >>, <<"react", <<"reactjs">> >>,
     <<"react", <<"react.js">> >>, <<"vue", <<"vuejs">> >>,
     <<"vue", <<"vue.js">> >>, <<"angular", <<"angularjs">> >>,
     <<"angular", <<"angular.js">> >>, <<"node", <<"nodejs">> >>,
     <<"node", <<"node.js">> >>, <<"express", <<"expressjs">> >>,
     <<"express", <<"express.js">> >>,
     <<"django", <<"python", "django">> >>,
     <<"flask", <<"python", "flask">> >>,
     <<"spring", <<"spring", "boot">> >>,
     <<"spring", <<"spring", "framework">> >>, <<"dotnet", <<".net">> >>,
     <<"dotnet", <<"dot", "net">> >>, <<"dotnet", <<"asp.net">> >>,
     <<"tf", <<"tensorflow">> >>, <<"pytorch", <<"torch">> >>,
     <<"pandas", <<"data", "analysis">> >>,
     <<"numpy", <<"numerical", "python">> >>, <<"git", <<"github">> >>,
     <<"git", <<"gitlab">> >>, <<"git", <<"version", "control">> >>,
     <<"linux", <<"unix">> >>, <<"linux", <<"ubuntu">> >>,
     <<"linux", <<"centos">> >>, <<"linux", <<"redhat">> >>,
     <<"bash", <<"shell">> >>, <<"bash", <<"shell", "scripting">> >>,
     <<"powershell", <<"windows", "scripting">> >>,
     <<"html", <<"html5">> >>, <<"css", <<"css3">> >>,
     <<"css", <<"styling">> >>, <<"sass", <<"scss">> >>,
     <<"jwt", <<"json", "web", "token">> >>,
     <<"jwt", <<"authentication">> >>, <<"oauth", <<"oauth2">> >>,
     <<"oauth", <<"authentication">> >>,
     <<"sso", <<"single", "sign-on">> >>,
     <<"sdk", <<"software", "development", "kit">> >>,
     <<"ide", <<"integrated", "development", "environment">> >>,
     <<"vscode", <<"visual", "studio", "code">> >>,
     <<"jira", <<"atlassian">> >>, <<"jira", <<"issue", "tracking">> >>,
     <<"confluence", <<"atlassian">> >>,
     <<"confluence", <<"documentation">> >>,
     <<"slack", <<"team", "communication">> >>,
     <<"etl", <<"extract", "transform", "load">> >>,
     <<"etl", <<"data", "pipeline">> >>,
     <<"bi", <<"business", "intelligence">> >>,
     <<"kpi", <<"key", "performance", "indicator">> >>,
     <<"kpi", <<"metrics">> >>,
     <<"roi", <<"return", "on", "investment">> >>,
     <<"b2b", <<"business", "to", "business">> >>,
     <<"b2c", <<"business", "to", "consumer">> >>,
     <<"crm", <<"customer", "relationship", "management">> >>,
     <<"crm", <<"salesforce">> >>,
     <<"erp", <<"enterprise", "resource", "planning">> >>,
     <<"hr", <<"human", "resources">> >>, <<"devops", <<"dev", "ops">> >>,
     <<"devops", <<"development", "operations">> >>,
     <<"sre", <<"site", "reliability", "engineering">> >>,
     <<"sre", <<"site", "reliability">> >>,
     <<"sla", <<"service", "level", "agreement">> >>,
     <<"cdn", <<"content", "delivery", "network">> >>,
     <<"dns", <<"domain", "name", "system">> >>, <<"ssl", <<"tls">> >>,
     <<"ssl", <<"https">> >>, <<"ssl", <<"security">> >>,
     <<"vpc", <<"virtual", "private", "cloud">> >>,
     <<"ec2", <<"elastic", "compute">> >>,
     <<"ec2", <<"aws", "compute">> >>, <<"s3", <<"aws", "storage">> >>,
     <<"s3", <<"object", "storage">> >>,
     <<"rds", <<"relational", "database", "service">> >>,
     <<"lambda", <<"serverless">> >>, <<"lambda", <<"aws", "lambda">> >>}

\* role_variations (lines 170-199) as pairs of a word and one of its
\* variations.
role_variations ==
    {<<"manager", <<"management">> >>, <<"manager", <<"managing">> >>,
     <<"management", <<"manager">> >>, <<"management", <<"managing">> >>,
     <<"engineer", <<"engineering">> >>,
     <<"engineering", <<"engineer">> >>,
     <<"developer", <<"development">> >>,
     <<"developer", <<"developing">> >>,
     <<"development", <<"developer">> >>,
     <<"development", <<"developing">> >>, <<"analyst", <<"analysis">> >>,
     <<"analyst", <<"analytics">> >>, <<"analyst", <<"analyzing">> >>,
     <<"analysis", <<"analyst">> >>, <<"analysis", <<"analytics">> >>,
     <<"analytics", <<"analyst">> >>, <<"analytics", <<"analysis">> >>,
     <<"architect", <<"architecture">> >>,
     <<"architect", <<"architecting">> >>,
     <<"architecture", <<"architect">> >>,
     <<"administrator", <<"administration">> >>,
     <<"administrator", <<"admin">> >>,
     <<"administration", <<"administrator">> >>,
     <<"administration", <<"admin">> >>, <<"admin", <<"administrator">> >>,
     <<"admin", <<"administration">> >>,
     <<"consultant", <<"consulting">> >>,
     <<"consultant", <<"consultancy">> >>,
     <<"consulting", <<"consultant">> >>,
     <<"consulting", <<"consultancy">> >>,
     <<"director", <<"directing">> >>, <<"director", <<"directorship">> >>,
     <<"lead", <<"leader">> >>, <<"lead", <<"leading">> >>,
     <<"lead", <<"leadership">> >>, <<"leader", <<"lead">> >>,
     <<"leader", <<"leading">> >>, <<"leader", <<"leadership">> >>,
     <<"leadership", <<"lead">> >>, <<"leadership", <<"leader">> >>,
     <<"leadership", <<"leading">> >>,
     <<"coordinator", <<"coordination">> >>,
     <<"coordinator", <<"coordinating">> >>,
     <<"coordination", <<"coordinator">> >>,
     <<"coordination", <<"coordinating">> >>,
     <<"specialist", <<"specialization">> >>,
     <<"specialist", <<"specialized">> >>,
     <<"supervisor", <<"supervision">> >>,
     <<"supervisor", <<"supervising">> >>, <<"programme", <<"program">> >>,
     <<"programme", <<"programs">> >>, <<"programme", <<"programmes">> >>,
     <<"program", <<"programme">> >>, <<"program", <<"programs">> >>,
     <<"program", <<"programmes">> >>, <<"project", <<"projects">> >>,
     <<"projects", <<"project">> >>}

\* Lines 201-206: full form -> abbreviations.
reverse_abbreviation_map == {<<p[2], <<p[1]>> >> : p \in abbreviation_map}

\* Lines 354-360: the phrases got from a phrase of several words by
\* replacing one word by one of its role variations.
RoleVariantsOfPhrase(phrase) ==
    IF Len(phrase) <= 1 THEN {}
    ELSE {[phrase EXCEPT ![i] = p[2][1]] :
             <<i, p>> \in {q \in (1..Len(phrase)) \X role_variations :
                             q[2][1] = phrase[q[1]]}}

\* ATSOptimizer._expand_with_synonyms (lines 334-362) on a set of phrases.
_expand_with_synonyms(keywords) ==
    keywords
    \cup {p[2] : p \in {q \in abbreviation_map : <<q[1]>> \in keywords}}
    \cup {p[2] : p \in {q \in reverse_abbreviation_map : q[1] \in keywords}}
    \cup {p[2] : p \in {q \in role_variations : <<q[1]>> \in keywords}}
    \cup UNION {RoleVariantsOfPhrase(k) : k \in keywords}

\* The pairs (part, word) of two different words of the maps and of the
\* texts scored here in which word holds part: anywhere, at its beginning,
\* at its end.
InsideWord ==
    {<<"5", "html5">>, <<"a", "about">>, <<"a", "acme">>, <<"a", "agile">>,
     <<"a", "agreement">>, <<"a", "ai">>, <<"a", "amazon">>,
     <<"a", "analysis">>, <<"a", "analyst">>, <<"a", "and">>,
     <<"a", "angular">>, <<"a", "angularjs">>, <<"a", "api">>,
     <<"a", "apis">>, <<"a", "apps">>, <<"a", "artificial">>,
     <<"a", "as">>, <<"a", "aspdotnet">>, <<"a", "assurance">>,
     <<"a", "at">>, <<"a", "atlassian">>, <<"a", "authentication">>,
     <<"a", "aws">>, <<"a", "azure">>, <<"a", "bash">>,
     <<"a", "behavior">>, <<"a", "belfast">>, <<"a", "communication">>,
     <<"a", "company">>, <<"a", "containerization">>,
     <<"a", "containers">>, <<"a", "daily">>, <<"a", "data">>,
     <<"a", "database">>, <<"a", "databases">>, <<"a", "django">>,
     <<"a", "documentation">>, <<"a", "domain">>, <<"a", "dynamodb">>,
     <<"a", "elastic">>, <<"a", "extract">>, <<"a", "flask">>,
     <<"a", "framework">>, <<"a", "functional">>, <<"a", "gitlab">>,
     <<"a", "graph">>, <<"a", "graphql">>, <<"a", "have">>,
     <<"a", "human">>, <<"a", "iaas">>, <<"a", "indicator">>,
     <<"a", "infrastructure">>, <<"a", "integrated">>,
     <<"a", "integration">>, <<"a", "interface">>, <<"a", "javascript">>,
     <<"a", "jira">>, <<"a", "kanban">>, <<"a", "labs">>,
     <<"a", "lambda">>, <<"a", "language">>, <<"a", "lead">>,
     <<"a", "leadership">>, <<"a", "learning">>, <<"a", "load">>,
     <<"a", "machine">>, <<"a", "management">>, <<"a", "morgan">>,
     <<"a", "name">>, <<"a", "natural">>, <<"a", "non-relational">>,
     <<"a", "numerical">>, <<"a", "oauth">>, <<"a", "oauth2">>,
     <<"a", "operations">>, <<"a", "paas">>, <<"a", "pandas">>,
     <<"a", "performance">>, <<"a", "planning">>, <<"a", "platform">>,
     <<"a", "private">>, <<"a", "programming">>, <<"a", "qa">>,
     <<"a", "qualifications">>, <<"a", "quality">>, <<"a", "react">>,
     <<"a", "reactjs">>, <<"a", "redhat">>, <<"a", "relational">>,
     <<"a", "relationship">>, <<"a", "reliability">>, <<"a", "saas">>,
     <<"a", "salesforce">>, <<"a", "sass">>, <<"a", "sla">>,
     <<"a", "slack">>, <<"a", "software">>, <<"a", "spreadsheets">>,
     <<"a", "storage">>, <<"a", "team">>, <<"a", "tracking">>,
     <<"a", "transform">>, <<"a", "virtual">>, <<"a", "visual">>,
     <<"a", "years">>, <<"ai", "containerization">>,
     <<"ai", "containers">>, <<"ai", "daily">>, <<"ai", "domain">>,
     <<"and", "pandas">>, <<"angular", "angularjs">>, <<"api", "apis">>,
     <<"as", "aspdotnet">>, <<"as", "assurance">>, <<"as", "atlassian">>,
     <<"as", "bash">>, <<"as", "belfast">>, <<"as", "database">>,
     <<"as", "databases">>, <<"as", "elastic">>, <<"as", "flask">>,
     <<"as", "iaas">>, <<"as", "infrastructure">>, <<"as", "javascript">>,
     <<"as", "paas">>, <<"as", "pandas">>, <<"as", "saas">>,
     <<"as", "sass">>, <<"at", "atlassian">>, <<"at", "authentication">>,
     <<"at", "communication">>, <<"at", "containerization">>,
     <<"at", "data">>, <<"at", "database">>, <<"at", "databases">>,
     <<"at", "documentation">>, <<"at", "indicator">>,
     <<"at", "integrated">>, <<"at", "integration">>, <<"at", "natural">>,
     <<"at", "non-relational">>, <<"at", "operations">>,
     <<"at", "platform">>, <<"at", "private">>, <<"at", "qualifications">>,
     <<"at", "redhat">>, <<"at", "relational">>, <<"at", "relationship">>,
     <<"bi", "big">>, <<"bi", "reliability">>, <<"cd", "cdn">>,
     <<"cd", "cicd">>, <<"ci", "artificial">>, <<"ci", "cicd">>,
     <<"ci", "citi">>, <<"code", "vscode">>, <<"compute", "computer">>,
     <<"css", "css3">>, <<"css", "scss">>, <<"data", "database">>,
     <<"data", "databases">>, <<"database", "databases">>,
     <<"db", "dynamodb">>, <<"db", "mongodb">>, <<"dev", "development">>,
     <<"dev", "devops">>, <<"dot", "aspdotnet">>, <<"dot", "dotnet">>,
     <<"dotnet", "aspdotnet">>, <<"driven", "test-driven">>,
     <<"engineer", "engineering">>, <<"erp", "enterprise">>,
     <<"experience", "experience text">>, <<"experience", "experienced">>,
     <<"express", "expressjs">>, <<"for", "performance">>,
     <<"for", "platform">>, <<"for", "salesforce">>,
     <<"for", "transform">>, <<"git", "github">>, <<"git", "gitlab">>,
     <<"graph", "graphql">>, <<"hi", "hiring">>, <<"hi", "leadership">>,
     <<"hi", "machine">>, <<"hi", "relationship">>, <<"html", "html5">>,
     <<"is", "analysis">>, <<"is", "apis">>, <<"is", "enterprise">>,
     <<"is", "issue">>, <<"is", "vision">>, <<"is", "visual">>,
     <<"js", "angularjs">>, <<"js", "expressjs">>, <<"js", "json">>,
     <<"js", "nodejs">>, <<"js", "reactjs">>, <<"js", "vuejs">>,
     <<"lead", "leadership">>, <<"leader", "leadership">>,
     <<"ml", "html">>, <<"ml", "html5">>, <<"net", "aspdotnet">>,
     <<"net", "dotnet">>, <<"net", "kubernetes">>, <<"net", "network">>,
     <<"node", "nodejs">>, <<"oauth", "oauth2">>,
     <<"object", "object-oriented">>, <<"on", "amazon">>,
     <<"on", "authentication">>, <<"on", "communication">>,
     <<"on", "confluence">>, <<"on", "consumer">>,
     <<"on", "containerization">>, <<"on", "containers">>,
     <<"on", "content">>, <<"on", "continuous">>, <<"on", "control">>,
     <<"on", "documentation">>, <<"on", "environment">>,
     <<"on", "functional">>, <<"on", "integration">>, <<"on", "json">>,
     <<"on", "mongodb">>, <<"on", "non-relational">>,
     <<"on", "operations">>, <<"on", "python">>,
     <<"on", "qualifications">>, <<"on", "relational">>,
     <<"on", "relationship">>, <<"on", "sign-on">>, <<"on", "version">>,
     <<"on", "vision">>, <<"ops", "devops">>,
     <<"oriented", "object-oriented">>, <<"our", "resource">>,
     <<"our", "resources">>, <<"pm", "development">>,
     <<"program", "programming">>, <<"py", "numpy">>, <<"py", "python">>,
     <<"py", "pytorch">>, <<"ql", "graphql">>, <<"ql", "mysql">>,
     <<"ql", "nosql">>, <<"ql", "postgresql">>, <<"ql", "sql">>,
     <<"react", "reactjs">>, <<"relational", "non-relational">>,
     <<"requirements", "requirements text">>, <<"resource", "resources">>,
     <<"rest", "restful">>, <<"s3", "css3">>, <<"service", "services">>,
     <<"shell", "powershell">>, <<"skills", "skills text">>,
     <<"sla", "slack">>, <<"sql", "mysql">>, <<"sql", "nosql">>,
     <<"sql", "postgresql">>, <<"test", "test-driven">>,
     <<"test", "testing">>, <<"tf", "platform">>, <<"tf", "restful">>,
     <<"to", "centos">>, <<"to", "customer">>, <<"to", "indicator">>,
     <<"to", "pytorch">>, <<"to", "storage">>, <<"to", "token">>,
     <<"to", "torch">>, <<"torch", "pytorch">>, <<"ts", "requirements">>,
     <<"ts", "requirements text">>, <<"ts", "spreadsheets">>,
     <<"ui", "built">>, <<"ui", "required">>, <<"ui", "requirements">>,
     <<"ui", "requirements text">>, <<"us", "business">>,
     <<"us", "continuous">>, <<"us", "customer">>, <<"us", "user">>,
     <<"ux", "linux">>, <<"very", "delivery">>, <<"vue", "vuejs">>}

PrefixOfWord ==
    {<<"a", "about">>, <<"a", "acme">>, <<"a", "agile">>,
     <<"a", "agreement">>, <<"a", "ai">>, <<"a", "amazon">>,
     <<"a", "analysis">>, <<"a", "analyst">>, <<"a", "and">>,
     <<"a", "angular">>, <<"a", "angularjs">>, <<"a", "api">>,
     <<"a", "apis">>, <<"a", "apps">>, <<"a", "artificial">>,
     <<"a", "as">>, <<"a", "aspdotnet">>, <<"a", "assurance">>,
     <<"a", "at">>, <<"a", "atlassian">>, <<"a", "authentication">>,
     <<"a", "aws">>, <<"a", "azure">>, <<"angular", "angularjs">>,
     <<"api", "apis">>, <<"as", "aspdotnet">>, <<"as", "assurance">>,
     <<"at", "atlassian">>, <<"bi", "big">>, <<"cd", "cdn">>,
     <<"ci", "cicd">>, <<"ci", "citi">>, <<"compute", "computer">>,
     <<"css", "css3">>, <<"data", "database">>, <<"data", "databases">>,
     <<"database", "databases">>, <<"dev", "development">>,
     <<"dev", "devops">>, <<"dot", "dotnet">>,
     <<"engineer", "engineering">>, <<"experience", "experience text">>,
     <<"experience", "experienced">>, <<"express", "expressjs">>,
     <<"git", "github">>, <<"git", "gitlab">>, <<"graph", "graphql">>,
     <<"hi", "hiring">>, <<"html", "html5">>, <<"is", "issue">>,
     <<"js", "json">>, <<"lead", "leadership">>,
     <<"leader", "leadership">>, <<"net", "network">>,
     <<"node", "nodejs">>, <<"oauth", "oauth2">>,
     <<"object", "object-oriented">>, <<"program", "programming">>,
     <<"py", "python">>, <<"py", "pytorch">>, <<"react", "reactjs">>,
     <<"requirements", "requirements text">>, <<"resource", "resources">>,
     <<"rest", "restful">>, <<"service", "services">>,
     <<"skills", "skills text">>, <<"sla", "slack">>,
     <<"test", "test-driven">>, <<"test", "testing">>, <<"to", "token">>,
     <<"to", "torch">>, <<"us", "user">>, <<"vue", "vuejs">>}

SuffixOfWord ==
    {<<"5", "html5">>, <<"a", "data">>, <<"a", "jira">>, <<"a", "lambda">>,
     <<"a", "qa">>, <<"a", "sla">>, <<"as", "iaas">>, <<"as", "paas">>,
     <<"as", "pandas">>, <<"as", "saas">>, <<"at", "redhat">>,
     <<"cd", "cicd">>, <<"code", "vscode">>, <<"css", "scss">>,
     <<"db", "dynamodb">>, <<"db", "mongodb">>, <<"dotnet", "aspdotnet">>,
     <<"driven", "test-driven">>, <<"is", "analysis">>, <<"is", "apis">>,
     <<"js", "angularjs">>, <<"js", "expressjs">>, <<"js", "nodejs">>,
     <<"js", "reactjs">>, <<"js", "vuejs">>, <<"ml", "html">>,
     <<"net", "aspdotnet">>, <<"net", "dotnet">>, <<"on", "amazon">>,
     <<"on", "authentication">>, <<"on", "communication">>,
     <<"on", "containerization">>, <<"on", "documentation">>,
     <<"on", "integration">>, <<"on", "json">>, <<"on", "python">>,
     <<"on", "sign-on">>, <<"on", "version">>, <<"on", "vision">>,
     <<"ops", "devops">>, <<"oriented", "object-oriented">>,
     <<"py", "numpy">>, <<"ql", "graphql">>, <<"ql", "mysql">>,
     <<"ql", "nosql">>, <<"ql", "postgresql">>, <<"ql", "sql">>,
     <<"relational", "non-relational">>, <<"s3", "css3">>,
     <<"shell", "powershell">>, <<"sql", "mysql">>, <<"sql", "nosql">>,
     <<"sql", "postgresql">>, <<"torch", "pytorch">>,
     <<"ts", "requirements">>, <<"ts", "spreadsheets">>,
     <<"us", "continuous">>, <<"ux", "linux">>, <<"very", "delivery">>}

Holds(word, part) == part = word \/ <<part, word>> \in InsideWord
StartsWith(word, part) == part = word \/ <<part, word>> \in PrefixOfWord
EndsWith(word, part) == part = word \/ <<part, word>> \in SuffixOfWord

\* The characters of phrase stand in the text from somewhere in word p on:
\* one word inside word p, or several words of which the first ends word
\* p, the last begins a word, the others are whole words, with single
\* spaces between them.
PhraseAt(flat, p, phrase) ==
    /\ p + Len(phrase) - 1 <= Len(flat)
    /\ IF Len(phrase) = 1 THEN Holds(flat[p].tok.w, phrase[1])
       ELSE /\ EndsWith(flat[p].tok.w, phrase[1])
            /\ StartsWith(flat[p + Len(phrase) - 1].tok.w,
                          phrase[Len(phrase)])
            /\ \A k \in 2..(Len(phrase) - 1) :
                  flat[p + k - 1].tok.w = phrase[k]
            /\ \A k \in 1..(Len(phrase) - 1) :
                  /\ flat[p + k - 1].tok.s = ""
                  /\ flat[p + k].ln = flat[p].ln

\* `phrase in cv_text` (lines 743 and 753) on the normalized CV text: a
\* substring test.
PhraseIn(flat, phrase) == \E p \in 1..Len(flat) : PhraseAt(flat, p, phrase)

\* Line 740: keyword.lower(), the keyword being the list of its words.
KeywordLower(keyword) == [i \in 1..Len(keyword) |-> Lower(keyword[i])]

\* A matcher that looks the keyword up as it stands, without its synonyms.
CheckKeywordOnly(keyword, cv_flat, cv_unigrams) ==
    \/ PhraseIn(cv_flat, KeywordLower(keyword))
    \/ KeywordLower(keyword) \in cv_unigrams

\* check_keyword_match (lines 738-756); keyword is the list of the words of
\* the keyword, each a Text.
check_keyword_match(keyword, cv_flat, cv_unigrams) ==
    \/ PhraseIn(cv_flat, KeywordLower(keyword))
    \/ KeywordLower(keyword) \in cv_unigrams
    \/ \E variant \in _expand_with_synonyms({KeywordLower(keyword)}) :
          PhraseIn(cv_flat, variant) \/ variant \in cv_unigrams

-----------------------------------------------------------------------------
(* ats_optimizer.py: calculate_ats_score.  key_requirements is the list of *)
(* its lines; a line is [header, items]: the section header it starts with *)
(* ("" when it starts with none) and the comma-separated items after it,   *)
(* each a Text of one word.                                                *)

ReqLine(header, items) == [header |-> header, items |-> items]

\* Lines 383-400: the section a header line opens.
HeaderSection ==
    [h \in {"hard skills", "soft skills", "qualifications",
            "required qualifications", "critical keywords", "required",
            "must have", "preferred", "nice to have"} |->
        CASE h = "hard skills" -> "hard_skills"
          [] h = "soft skills" -> "soft_skills"
          [] h \in {"qualifications", "required qualifications"} ->
                 "qualifications"
          [] h = "critical keywords" -> "critical_keywords"
          [] h \in {"required", "must have"} -> "required"
          [] h \in {"preferred", "nice to have"} -> "preferred"]

NoRequirements ==
    [c \in {"hard_skills", "soft_skills", "qualifications",
            "critical_keywords", "required", "preferred"} |-> <<>>]

\* Lines 376-408: the loop over the lines; current_section is "" for None.
RECURSIVE ParseRequirementLines(_, _, _)
ParseRequirementLines(lines, current_section, result) ==
    IF lines = <<>> THEN result
    ELSE IF Head(lines).header = "" /\ Head(lines).items = <<>>
    THEN ParseRequirementLines(Tail(lines), current_section, result)
    ELSE IF Head(lines).header # ""
    THEN ParseRequirementLines(
             Tail(lines), HeaderSection[Head(lines).header],
             [result EXCEPT ![HeaderSection[Head(lines).header]] =
                                @ \o Head(lines).items])
    ELSE IF current_section # ""
    THEN ParseRequirementLines(
             Tail(lines), current_section,
             [result EXCEPT ![current_section] = @ \o Head(lines).items])
    ELSE ParseRequirementLines(Tail(lines), current_section, result)

\* A parser that files the items met before any header under 'required'.
ParseLooseAsRequired(llm_output) ==
    ParseRequirementLines(llm_output, "required", NoRequirements)

\* ATSOptimizer._parse_llm_requirements (lines 364-410).
_parse_llm_requirements(llm_output) ==
    ParseRequirementLines(llm_output, "", NoRequirements)

\* Lines 759-764: the keywords of one category, matched and missing.
RequirementScores(keywords, cv_flat, cv_unigrams_expanded) ==
    [matched |-> SelectSeq(keywords, LAMBDA k :
                     check_keyword_match(<<k>>, cv_flat,
                                         cv_unigrams_expanded)),
     missing |-> SelectSeq(keywords, LAMBDA k :
                     ~check_keyword_match(<<k>>, cv_flat,
                                          cv_unigrams_expanded))]

\* Lines 773-776: the lowercase keywords the other categories track.
AlreadyTracked(parsed_reqs) ==
    UNION {{Lower(parsed_reqs[c][i]) : i \in 1..Len(parsed_reqs[c])} :
              c \in CategorySet \ {"frequency_keywords"}}

AsTexts(words) == [i \in 1..Len(words) |-> Text(words[i], "l")]

\* Lines 770-780: the top unigrams of the JD, matched and missing.
FrequencyScores(top_job_unigrams, parsed_reqs, cv_unigrams_expanded) ==
    [matched |-> AsTexts(SelectSeq(top_job_unigrams, LAMBDA w :
                     <<w>> \in cv_unigrams_expanded)),
     missing |-> AsTexts(SelectSeq(top_job_unigrams, LAMBDA w :
                     /\ <<w>> \notin cv_unigrams_expanded
                     /\ w \notin AlreadyTracked(parsed_reqs)))]

\* Lines 729-780: the dict `scores` without its weights.
KeywordScores(parsed_reqs, top_job_unigrams, cv_flat, cv_unigrams_expanded) ==
    [c \in CategorySet |->
        IF c = "frequency_keywords"
        THEN FrequencyScores(top_job_unigrams, parsed_reqs,
                             cv_unigrams_expanded)
        ELSE RequirementScores(parsed_reqs[c], cv_flat,
                               cv_unigrams_expanded)]

KeywordCounts(scores) ==
    [c \in CategorySet |-> [matched |-> Len(scores[c].matched),
                            missing |-> Len(scores[c].missing)]]

\* Lines 813-817: the lists of one kind of all categories, in their order.
RECURSIVE AllOf(_, _, _)
AllOf(scores, kind, i) ==
    IF i > Len(Categories) THEN <<>>
    ELSE scores[Categories[i]][kind] \o AllOf(scores, kind, i + 1)

\* Lines 820-823: duplicates by lowercase removed, the first one kept.
RECURSIVE UniqueByLower(_, _)
UniqueByLower(keywords, seen) ==
    IF keywords = <<>> THEN <<>>
    ELSE IF Lower(Head(keywords)) \in seen
    THEN UniqueByLower(Tail(keywords), seen)
    ELSE <<Head(keywords)>>
         \o UniqueByLower(Tail(keywords), seen \cup {Lower(Head(keywords))})

\* e.text.lower() of the hard and soft skills of a list
\* (document_parser.py:134-142).
SkillTexts(entities) ==
    {Lower(entities[i].text) : i \in
        {j \in 1..Len(entities) :
            entities[j].entity_type \in {"hard_skill", "soft_skill"}}}

\* Lines 825-912: the report's score (tenths), keyword lists, counts by
\* category (lines 832-840) and parsed entities.  The semantic result is that of a process in which
\* sentence-transformers is not installed (semantic_scorer.py:346-351).
AtsReport(scores, top_job_unigrams, parsed_cv, parsed_jd) ==
    [score |->
         calculate_hybrid_score(
             LexicalScore(KeywordCounts(scores)), UnavailableResult,
             Hundredths(_calculate_evidence_scores(
                            parsed_cv.entities,
                            parsed_jd.entities).average_strength)
         ).final_score,
     matched_keywords |->
         FirstN(UniqueByLower(AllOf(scores, "matched", 1), {}),
                ReportedKeywords),
     missing_keywords |->
         FirstN(UniqueByLower(AllOf(scores, "missing", 1), {}),
                ReportedKeywords),
     top_job_keywords |-> FirstN(top_job_unigrams, ReportedKeywords),
     scores_by_category |-> KeywordCounts(scores),
     jd_required_skills |-> SkillTexts(parsed_jd.required_entities),
     jd_preferred_skills |-> SkillTexts(parsed_jd.preferred_entities),
     cv_years_experience |-> parsed_cv.years,
     jd_years_required |-> parsed_jd.years]

PhraseSet(words) == {<<words[i]>> : i \in 1..Len(words)}

\* The evidence of one scoring: the strengths of the entities of the two
\* parsed documents, the result of _calculate_evidence_scores (line 710)
\* and the evidence_score the hybrid score makes of its average (lines
\* 804-808, 664 and 680), in tenths.
Evidence(cv_entities, jd_entities, evidence_scores) ==
    [cv_strengths |->
         [i \in 1..Len(cv_entities) |-> cv_entities[i].evidence_strength],
     jd_strengths |->
         [i \in 1..Len(jd_entities) |-> jd_entities[i].evidence_strength],
     evidence_scores |-> evidence_scores,
     evidence_score |->
         calculate_hybrid_score(
             FInt(0), UnavailableResult,
             Hundredths(evidence_scores.average_strength)).evidence_score]

NoEvidence == Evidence(<<>>, <<>>, _calculate_evidence_scores(<<>>, <<>>))

\* ATSOptimizer.calculate_ats_score (lines 687-912): the report and the
\* instance's dynamic_stopwords after the call.  The job description's
\* keywords are extracted first, then the CV's (lines 716-717).
calculate_ats_score(company_name, dynamic_stopwords, cv_text, job_description, key_requirements, hash_order) ==
    Let(extract_keywords(company_name, dynamic_stopwords, job_description),
        LAMBDA job_keywords :
    Let(extract_keywords(company_name, job_keywords.dynamic_stopwords,
                         cv_text),
        LAMBDA cv_keywords :
    Let(most_common(job_keywords.unigrams, TopUnigrams),
        LAMBDA top_job_unigrams :
    Let(KeywordScores(
            _parse_llm_requirements(key_requirements), top_job_unigrams,
            _normalize_text(TextEntries(cv_text, 1, 0)),
            _expand_with_synonyms(PhraseSet(cv_keywords.unigrams))),
        LAMBDA scores :
    Let(parse_cv(cv_text, hash_order),
        LAMBDA parsed_cv :
    Let(parse_jd(job_description, hash_order),
        LAMBDA parsed_jd :
        [report |->
             AtsReport(scores, top_job_unigrams, parsed_cv, parsed_jd),
         scores |-> scores,
         top_job_unigrams |-> top_job_unigrams,
         evidence |->
             Evidence(parsed_cv.entities, parsed_jd.entities,
                      _calculate_evidence_scores(parsed_cv.entities,
                                                 parsed_jd.entities)),
         dynamic_stopwords |-> cv_keywords.dynamic_stopwords]))))))

-----------------------------------------------------------------------------
(* SpecOpt: one ATSOptimizer where sentence-transformers is not installed, *)
(* built with or without a company name, on which calculate_ats_score and  *)
(* extract_keywords are called in any order on the documents below.  The   *)
(* instance's state between calls is company_name and dynamic_stopwords;   *)
(* calls counts the calls made, first keeps the report of the first        *)
(* scoring of each case and last the latest call.                          *)

CompanyJd ==
    << <<Tok("join", "T", ""), Tok("docker", "T", ""), Tok("as", "l", ""),
         Tok("senior", "l", ""), Tok("engineer", "l", ".")>> >>

EngineerCv ==
    << <<Tok("senior", "T", ""), Tok("engineer", "T", "")>>,
       <<Tok("built", "l", ""), Tok("python", "l", ""), Tok("apps", "l", "")>> >>

\* A CV whose own wording names an employer.
EmployerCv ==
    << <<Tok("worked", "T", ""), Tok("at", "l", ""), Tok("aws", "U", ""),
         Tok("as", "l", ""), Tok("engineer", "l", ".")>> >>

\* "Company: Acme Labs." and a line of skills.
LabelledJd ==
    << <<Tok("company", "T", ":"), Tok("acme", "T", ""), Tok("labs", "T", ".")>>,
       <<Tok("python", "T", ""), Tok("and", "l", ""), Tok("docker", "T", "")>> >>

\* "Python Labs is hiring" and, on the next line, a group of five words
\* between "join" and "as", which the four-word limit rejects.
HiringJd ==
    << <<Tok("python", "T", ""), Tok("labs", "T", ""), Tok("is", "l", ""),
         Tok("hiring", "l", ".")>>,
       <<Tok("join", "T", ""), Tok("our", "l", ""), Tok("very", "l", ""),
         Tok("big", "l", ""), Tok("aws", "U", ""), Tok("team", "l", ""),
         Tok("as", "l", ""), Tok("engineer", "l", ".")>> >>

\* "Required: Python, AWS", a blank line, "Preferred: Docker" and, on a line
\* of its own, "Engineering".
ListedRequirements ==
    <<ReqLine("required", <<Text("python", "T"), Text("aws", "U")>>),
      ReqLine("", <<>>),
      ReqLine("preferred", <<Text("docker", "T")>>),
      ReqLine("", <<Text("engineering", "T")>>)>>

\* A line of items before any header is dropped.
LooseRequirements == <<ReqLine("", <<Text("python", "l")>>)>>

OptCase(cv_text, job_description, key_requirements) ==
    [cv_text |-> cv_text, job_description |-> job_description,
     key_requirements |-> key_requirements]

OptCases ==
    <<OptCase(<<ScenarioACv>>, <<ScenarioAJd>>, <<>>),
      OptCase(<<ScenarioACv>>, <<ScenarioAJd>>, ListedRequirements),
      OptCase(EngineerCv, CompanyJd, <<>>),
      OptCase(EmployerCv, <<ScenarioAJd>>, LooseRequirements),
      OptCase(EngineerCv, LabelledJd, ListedRequirements),
      OptCase(EngineerCv, HiringJd, <<>>)>>

OptTexts == <<<<ScenarioAJd>>, CompanyJd, EmployerCv, HiringJd>>

\* The calls made on the instance.
MaxOptCalls == 3

OptCompanyNames == {<<>>, <<"citi", "belfast">>}

NoReport ==
    [score |-> 0, matched_keywords |-> <<>>, missing_keywords |-> <<>>,
     top_job_keywords |-> <<>>,
     scores_by_category |->
         [c \in CategorySet |-> [matched |-> 0, missing |-> 0]],
     jd_required_skills |-> {},
     jd_preferred_skills |-> {}, cv_years_experience |-> -1,
     jd_years_required |-> -1]

OptCall(op, input, report, unigrams) ==
    [op |-> op, input |-> input, report |-> report, unigrams |-> unigrams]

\* The dict `scores` of the latest call and the top unigrams it was filled
\* from; empty when the latest call was not a scoring.
Scored(scores, top_job_unigrams) ==
    [scores |-> scores, top_job_unigrams |-> top_job_unigrams]

NoScores == [c \in CategorySet |-> [matched |-> <<>>, missing |-> <<>>]]

InitOpt ==
    /\ \E company_name \in OptCompanyNames,
          hash_order \in {"forward", "reverse"} :
          opt = [pc |-> "on", company_name |-> company_name,
                 hash_order |-> hash_order,
                 dynamic_stopwords |-> InitialStopwords(company_name),
                 calls |-> 0,
                 first |-> [i \in 1..Len(OptCases) |->
                               [scored |-> FALSE, report |-> NoReport]],
                 last |-> OptCall("none", 0, NoReport, <<>>),
                 scored |-> Scored(NoScores, <<>>),
                 evidence |-> NoEvidence]
    /\ hyb = Idle /\ run = Idle /\ scorer = Idle /\ doc = Idle

CalculateAtsScore ==
    /\ opt.pc = "on"
    /\ opt.calls < MaxOptCalls
    /\ \E i \in 1..Len(OptCases) :
          Let(calculate_ats_score(
                  opt.company_name, opt.dynamic_stopwords,
                  OptCases[i].cv_text, OptCases[i].job_description,
                  OptCases[i].key_requirements, opt.hash_order),
              LAMBDA result :
                  opt' = [opt EXCEPT
                            !.dynamic_stopwords = result.dynamic_stopwords,
                            !.calls = @ + 1,
                            !.first[i] =
                                IF @.scored THEN @
                                ELSE [scored |-> TRUE,
                                      report |-> result.report],
                            !.last = OptCall("calculate_ats_score", i,
                                             result.report, <<>>),
                            !.scored = Scored(result.scores,
                                              result.top_job_unigrams),
                            !.evidence = result.evidence])
    /\ UNCHANGED <<hyb, run, scorer, doc>>

ExtractKeywords ==
    /\ opt.pc = "on"
    /\ opt.calls < MaxOptCalls
    /\ \E i \in 1..Len(OptTexts) :
          Let(extract_keywords(opt.company_name, opt.dynamic_stopwords,
                               OptTexts[i]),
              LAMBDA result :
                  opt' = [opt EXCEPT
                            !.dynamic_stopwords = result.dynamic_stopwords,
                            !.calls = @ + 1,
                            !.last = OptCall("extract_keywords", i,
                                             NoReport, result.unigrams),
                            !.scored = Scored(NoScores, <<>>),
                            !.evidence = NoEvidence])
    /\ UNCHANGED <<hyb, run, scorer, doc>>

NextOpt ==
    \/ CalculateAtsScore
    \/ ExtractKeywords

SpecOpt == InitOpt /\ [][NextOpt]_vars

-----------------------------------------------------------------------------
(* Claims about calculate_ats_score on one optimizer.                      *)

LowerSet(keywords) == {Lower(keywords[i]) : i \in 1..Len(keywords)}

\* The latest call scored the CV and the job description of Scenario A.
ScoredScenarioA ==
    /\ opt.pc = "on"
    /\ opt.last.op = "calculate_ats_score"
    /\ OptCases[opt.last.input].cv_text = <<ScenarioACv>>
    /\ OptCases[opt.last.input].job_description = <<ScenarioAJd>>

\* C9: scoring the Scenario A texts ("5+ years experience with Python and
\* AWS required. Nice to have: Docker." against "Worked with Python for 6
\* years. AWS certified.") reports years_required = 5 and
\* years_experience = 6, has "python" and "aws" among the required skills of
\* the job description and among the matched keywords, and has "docker"
\* among the missing keywords.
C9_ScenarioA ==
    ScoredScenarioA =>
        /\ opt.last.report.jd_years_required = 5
        /\ opt.last.report.cv_years_experience = 6
        /\ {"python", "aws"} \subseteq opt.last.report.jd_required_skills
        /\ {"python", "aws"} \subseteq
               LowerSet(opt.last.report.matched_keywords)
        /\ "docker" \in LowerSet(opt.last.report.missing_keywords)

\* The stopwords are those the constructor left.
StopwordsUnchanged ==
    opt.dynamic_stopwords = InitialStopwords(opt.company_name)

\* The latest scoring reports what the first scoring of the same case did.
SameReportAsFirst ==
    opt.last.op = "calculate_ats_score" =>
        /\ opt.last.report.score = opt.first[opt.last.input].report.score
        /\ opt.last.report.matched_keywords =
               opt.first[opt.last.input].report.matched_keywords
        /\ opt.last.report.missing_keywords =
               opt.first[opt.last.input].report.missing_keywords

\* C10: calculate_ats_score and extract_keywords leave the optimizer's
\* stopwords as they were after construction, and so a scoring call reports
\* the score and the matched and missing keyword lists that the first
\* scoring of the same (cv_text, job_description, key_requirements) on this
\* instance reported, whatever was scored in between.
C10_NoSharedState ==
    opt.pc = "on" => StopwordsUnchanged /\ SameReportAsFirst

\* The requirements string has no line that starts with a section header:
\* it is empty, blank, or holds items only.
NoHeaderLine(key_requirements) ==
    \A i \in 1..Len(key_requirements) : key_requirements[i].header = ""

ScoredWithoutHeaders ==
    /\ opt.pc = "on"
    /\ opt.last.op = "calculate_ats_score"
    /\ NoHeaderLine(OptCases[opt.last.input].key_requirements)

\* C11: when the structured-requirements string is empty or has no
\* recognised header line, calculate_ats_score returns a report with every
\* field, in which critical_keywords, hard_skills, required, soft_skills
\* and preferred each count zero matched and zero missing keywords.
C11_NoHeaderEmptyBuckets ==
    ScoredWithoutHeaders =>
        /\ DOMAIN opt.last.report = DOMAIN NoReport
        /\ \A c \in CategorySet \ {"frequency_keywords"} :
               /\ opt.last.report.scores_by_category[c].matched = 0
               /\ opt.last.report.scores_by_category[c].missing = 0

\* C11 witness: a scoring whose requirements string holds items but no
\* header, and whose report still counts frequency keywords of both kinds.
C11_Witness ==
    /\ ScoredWithoutHeaders
    /\ OptCases[opt.last.input].key_requirements # <<>>
    /\ opt.last.report.scores_by_category["frequency_keywords"].matched > 0
    /\ opt.last.report.scores_by_category["frequency_keywords"].missing > 0

-----------------------------------------------------------------------------
(* SpecLexical: the scoring loops of calculate_ats_score (lines 759-780)   *)
(* file one keyword after another under a category, as matched or as       *)
(* missing, and lines 791-802 then compute the lexical score from the      *)
(* lengths of the twelve lists.                                            *)

\* The keywords filed before the score is computed.
MaxKeywords == 3

InitLexical ==
    /\ run = [pc |-> "scoring", counts |-> CountsOf(<<>>),
              lexical_score |-> FInt(0)]
    /\ hyb = Idle /\ scorer = Idle /\ doc = Idle /\ opt = Idle

\* Lines 761-764, 779 and 780: one keyword is appended to a list.
ScoreKeyword ==
    /\ run.pc = "scoring"
    /\ SumCounts(run.counts, "matched", 1)
           + SumCounts(run.counts, "missing", 1) < MaxKeywords
    /\ \E slot \in ItemSlots :
          run' = [run EXCEPT !.counts[slot[1]][slot[2]] = @ + 1]
    /\ UNCHANGED <<hyb, scorer, doc, opt>>

\* Lines 791-802.
ComputeLexicalScore ==
    /\ run.pc = "scoring"
    /\ run' = [run EXCEPT !.pc = "computed",
                          !.lexical_score = LexicalScore(run.counts)]
    /\ UNCHANGED <<hyb, scorer, doc, opt>>

NextLexical ==
    \/ ScoreKeyword
    \/ ComputeLexicalScore

SpecLexical == InitLexical /\ [][NextLexical]_vars

\* The category weights 3.0, 2.5, 2.0, 1.5, 1.0 and 0.5.
ClaimedWeight ==
    [critical_keywords |-> Frac(3, 1), hard_skills |-> Frac(5, 2),
     required |-> Frac(2, 1), soft_skills |-> Frac(3, 2),
     preferred |-> Frac(1, 1), frequency_keywords |-> Frac(1, 2)]

CategoryTotal(counts, c) == counts[c].matched + counts[c].missing

\* Sum over the categories i..6 with total > 0 of
\* matched / total * weight * total.
RECURSIVE ClaimedNumerator(_, _)
ClaimedNumerator(counts, i) ==
    IF i > Len(Categories) THEN FInt(0)
    ELSE FAdd(IF CategoryTotal(counts, Categories[i]) > 0
              THEN FMul(FMul(Frac(counts[Categories[i]].matched,
                                  CategoryTotal(counts, Categories[i])),
                             ClaimedWeight[Categories[i]]),
                        FInt(CategoryTotal(counts, Categories[i])))
              ELSE FInt(0),
              ClaimedNumerator(counts, i + 1))

\* Sum over the categories i..6 of weight * total.
RECURSIVE ClaimedDenominator(_, _)
ClaimedDenominator(counts, i) ==
    IF i > Len(Categories) THEN FInt(0)
    ELSE FAdd(FMul(ClaimedWeight[Categories[i]],
                   FInt(CategoryTotal(counts, Categories[i]))),
              ClaimedDenominator(counts, i + 1))

NoItems(counts) == \A c \in CategorySet : CategoryTotal(counts, c) = 0
NoneMissing(counts) == \A c \in CategorySet : counts[c].missing = 0

\* C12: the lexical score is 100 times the sum over the six categories of
\* matched / total * weight * total divided by the sum of weight * total,
\* over the categories that hold a keyword, with the weights 3.0, 2.5, 2.0,
\* 1.5, 1.0 and 0.5; it is 0 when no category holds a keyword and, when
\* one does, it is 100 if and only if no keyword is missing.
C12_LexicalFormula ==
    run.pc = "computed" =>
        /\ NoItems(run.counts) => run.lexical_score = FInt(0)
        /\ ~NoItems(run.counts) =>
               /\ FMul(run.lexical_score,
                       ClaimedDenominator(run.counts, 1)) =
                      FMul(FInt(100), ClaimedNumerator(run.counts, 1))
               /\ run.lexical_score = FInt(100) <=> NoneMissing(run.counts)

\* C12 witness: a score strictly between 0 and 100 computed from keywords
\* of two categories of different weights, one matched and one missing.
C12_Witness ==
    /\ run.pc = "computed"
    /\ run.counts["critical_keywords"].matched = 1
    /\ run.counts["frequency_keywords"].missing = 1
    /\ run.lexical_score = Frac(600, 7)

-----------------------------------------------------------------------------
(* SpecMatch: lines 717-764 of calculate_ats_score for one keyword of the  *)
(* structured requirements and a CV that names one form of an entry of     *)
(* abbreviation_map: the CV's keywords are extracted and expanded, its     *)
(* text normalized, and check_keyword_match decides matched or missing.    *)
(* One keyword is scored on a new optimizer.                               *)

\* Lowercase, capitalised and upper-case writing.
LetterCases == {"l", "T", "U"}

\* "Experienced with <words> daily."
CvNaming(words, c) ==
    << <<Tok("experienced", "T", ""), Tok("with", "l", "")>>
       \o [i \in 1..Len(words) |-> Tok(words[i], c, "")]
       \o <<Tok("daily", "l", ".")>> >>

KeywordOf(words, c) == [i \in 1..Len(words) |-> Text(words[i], c)]

MatchCall(op, keyword, cv_text, matched) ==
    [op |-> op, keyword |-> keyword, cv_text |-> cv_text,
     matched |-> matched]

InitMatch ==
    /\ \E company_name \in OptCompanyNames :
          opt = [pc |-> "matching", company_name |-> company_name,
                 dynamic_stopwords |-> InitialStopwords(company_name),
                 last |-> MatchCall("none", <<>>, <<>>, FALSE)]
    /\ hyb = Idle /\ run = Idle /\ scorer = Idle /\ doc = Idle

\* Lines 717-764 for the keyword and the CV text.
ScoreRequirement(op, keyword, cv_text) ==
    Let(extract_keywords(opt.company_name, opt.dynamic_stopwords, cv_text),
        LAMBDA cv_keywords :
            opt' = [opt EXCEPT
                      !.pc = "matched",
                      !.dynamic_stopwords = cv_keywords.dynamic_stopwords,
                      !.last = MatchCall(op, keyword, cv_text,
                          check_keyword_match(
                              keyword,
                              _normalize_text(TextEntries(cv_text, 1, 0)),
                              _expand_with_synonyms(
                                  PhraseSet(cv_keywords.unigrams))))])

\* The job asks for an abbreviation and the CV writes a full form of it.
MatchAbbreviation ==
    /\ opt.pc = "matching"
    /\ \E pair \in abbreviation_map, kc \in LetterCases, cc \in LetterCases :
          ScoreRequirement("abbreviation", KeywordOf(<<pair[1]>>, kc),
                           CvNaming(pair[2], cc))
    /\ UNCHANGED <<hyb, run, scorer, doc>>

\* The job asks for a full form and the CV writes its abbreviation.
MatchFullForm ==
    /\ opt.pc = "matching"
    /\ \E pair \in abbreviation_map, kc \in LetterCases, cc \in LetterCases :
          ScoreRequirement("full_form", KeywordOf(pair[2], kc),
                           CvNaming(<<pair[1]>>, cc))
    /\ UNCHANGED <<hyb, run, scorer, doc>>

\* The CV names nothing of the map.
MatchUnrelated ==
    /\ opt.pc = "matching"
    /\ \E pair \in abbreviation_map, kc \in LetterCases :
          \E words \in {<<pair[1]>>, pair[2]} :
              ScoreRequirement("unrelated", KeywordOf(words, kc),
                               CvNaming(<<"spreadsheets">>, "l"))
    /\ UNCHANGED <<hyb, run, scorer, doc>>

NextMatch ==
    \/ MatchAbbreviation
    \/ MatchFullForm
    \/ MatchUnrelated

SpecMatch == InitMatch /\ [][NextMatch]_vars

-----------------------------------------------------------------------------
(* SpecEmployer: calculate_ats_score on an optimizer built with or without *)
(* a company name, on job descriptions and CVs that name an employer.      *)
(* Lines 716-717 extract the keywords of the job description and then of   *)
(* the CV; the state keeps the two keyword sets of the latest call.        *)

\* "About Citi Belfast.", "Join Citi Belfast as analyst." and "Citi needs
\* Python.": the second line lets the second pattern find the name.
CitiJoinJd ==
    << <<Tok("about", "T", ""), Tok("citi", "T", ""),
         Tok("belfast", "T", ".")>>,
       <<Tok("join", "T", ""), Tok("citi", "T", ""), Tok("belfast", "T", ""),
         Tok("as", "l", ""), Tok("analyst", "l", ".")>>,
       <<Tok("citi", "T", ""), Tok("needs", "l", ""),
         Tok("python", "T", ".")>> >>

\* The same without the second line: no pattern finds a name.
CitiAboutJd == <<CitiJoinJd[1], CitiJoinJd[3]>>

\* "Join JP Morgan as analyst." and "JP needs Python."
JpJd ==
    << <<Tok("join", "T", ""), Tok("jp", "U", ""), Tok("morgan", "T", ""),
         Tok("as", "l", ""), Tok("analyst", "l", ".")>>,
       <<Tok("jp", "U", ""), Tok("needs", "l", ""),
         Tok("python", "T", ".")>> >>

\* "Built Python apps for Citi." and "Built Python apps for JP Morgan."
CitiCv ==
    << <<Tok("built", "T", ""), Tok("python", "T", ""), Tok("apps", "l", ""),
         Tok("for", "l", ""), Tok("citi", "T", ".")>> >>
JpCv ==
    << <<Tok("built", "T", ""), Tok("python", "T", ""), Tok("apps", "l", ""),
         Tok("for", "l", ""), Tok("jp", "U", ""),
         Tok("morgan", "T", ".")>> >>

EmployerJds == <<CitiJoinJd, CitiAboutJd, JpJd, LabelledJd, HiringJd>>
EmployerCvs == <<CitiCv, JpCv, EngineerCv>>
EmployerNames == {<<>>, <<"citi", "belfast">>, <<"jp", "morgan">>}

\* The calls made on the instance.
MaxEmployerCalls == 2

\* The employer's name in a call: the one given to the constructor or, with
\* none given, the one found in the job description (lines 292-296).
EmployerName(company_name, job_description) ==
    IF company_name # <<>> THEN company_name
    ELSE _extract_company_from_text(job_description)

EmployerCall(jd, cv, name, job_unigrams, cv_unigrams, top_job_keywords) ==
    [jd |-> jd, cv |-> cv, name |-> name, job_unigrams |-> job_unigrams,
     cv_unigrams |-> cv_unigrams, top_job_keywords |-> top_job_keywords]

InitEmployer ==
    /\ \E company_name \in EmployerNames :
          opt = [pc |-> "employer", company_name |-> company_name,
                 dynamic_stopwords |-> InitialStopwords(company_name),
                 calls |-> 0,
                 last |-> EmployerCall(0, 0, <<>>, {}, {}, <<>>)]
    /\ hyb = Idle /\ run = Idle /\ scorer = Idle /\ doc = Idle

\* calculate_ats_score: the keywords of lines 716-717, the stopwords the
\* call leaves and the report's top_job_keywords.
ScoreForEmployer ==
    /\ opt.pc = "employer"
    /\ opt.calls < MaxEmployerCalls
    /\ \E i \in 1..Len(EmployerJds), j \in 1..Len(EmployerCvs) :
          Let(extract_keywords(opt.company_name, opt.dynamic_stopwords,
                               EmployerJds[i]),
              LAMBDA job_keywords :
          Let(extract_keywords(opt.company_name,
                               job_keywords.dynamic_stopwords,
                               EmployerCvs[j]),
              LAMBDA cv_keywords :
                  opt' = [opt EXCEPT
                            !.dynamic_stopwords =
                                calculate_ats_score(
                                    opt.company_name, opt.dynamic_stopwords,
                                    EmployerCvs[j], EmployerJds[i], <<>>,
                                    "forward").dynamic_stopwords,
                            !.calls = @ + 1,
                            !.last = EmployerCall(
                                i, j,
                                EmployerName(opt.company_name,
                                             EmployerJds[i]),
                                {job_keywords.unigrams[k] :
                                    k \in 1..Len(job_keywords.unigrams)},
                                {cv_keywords.unigrams[k] :
                                    k \in 1..Len(cv_keywords.unigrams)},
                                calculate_ats_score(
                                    opt.company_name, opt.dynamic_stopwords,
                                    EmployerCvs[j], EmployerJds[i], <<>>,
                                    "forward").report.top_job_keywords)]))
    /\ UNCHANGED <<hyb, run, scorer, doc>>

NextEmployer == ScoreForEmployer

SpecEmployer == InitEmployer /\ [][NextEmployer]_vars

NameWords(name) == {name[k] : k \in 1..Len(name)}

\* C14: when the employer's name is given to the optimizer or found in the
\* job description, no word of the name is among the keywords that a
\* calculate_ats_score call extracts from the job description or from the
\* CV.
C14_EmployerNameExcluded ==
    (opt.pc = "employer" /\ opt.calls > 0) =>
        /\ NameWords(opt.last.name) \cap opt.last.job_unigrams = {}
        /\ NameWords(opt.last.name) \cap opt.last.cv_unigrams = {}

-----------------------------------------------------------------------------
(* Claims about texts without section headers.                             *)

\* No line of the text is both header-like and a match for a known section
\* pattern of the call.
NoKnownHeader ==
    \A i \in 1..Len(doc.text) :
        ~KnownHeader(doc.text, i, PatternsOf(doc.op))

\* C15: for a text in which no line is both header-like and a match for a
\* known section pattern, the empty text included, detect_cv_sections and
\* detect_jd_sections return exactly one section, of type UNKNOWN, whose
\* content is the whole text.
C15_OneUnknownSection ==
    (SectionsDetected /\ NoKnownHeader) =>
        /\ Len(doc.result.sections) = 1
        /\ doc.result.sections[1].section_type = "unknown"
        /\ doc.result.sections[1].content = doc.text
        /\ doc.result.sections[1].start_line = 0
        /\ doc.result.sections[1].end_line = Len(doc.text) - 1

\* C15 witness: a text of several lines, one of them header-like, that is
\* returned as one unknown section.
C15_Witness ==
    /\ SectionsDetected /\ NoKnownHeader
    /\ Len(doc.text) = MaxLines
    /\ \E i \in 1..Len(doc.text) : _is_header_line(doc.text[i])
    /\ \E i \in 1..Len(doc.text) : doc.text[i] = <<>>
    /\ Len(doc.result.sections) = 1

\* The evidence strength stated for a skill found at word p of the text, in
\* hundredths: the base, the bonus of the section, and the bonuses of a
\* metric and of an action verb within 100 characters of the match.
ClaimedSectionBonus ==
    [experience |-> 20, projects |-> 15, summary |-> 10]
MetricNear(text, term, p) ==
    MetricIn(TextEntries(text, 1, 0),
             ContextStart(MatchStart(TextEntries(text, 1, 0), p), 100),
             ContextEnd(CharLen(text),
                        MatchEnd(TextEntries(text, 1, 0), p, term), 100))
VerbNear(text, term, p) ==
    ActionVerbIn(TextEntries(text, 1, 0),
                 ContextStart(MatchStart(TextEntries(text, 1, 0), p), 100),
                 ContextEnd(CharLen(text),
                            MatchEnd(TextEntries(text, 1, 0), p, term), 100))
ClaimedStrength(text, section_type, term, p) ==
    LET sum == 100
               + (IF section_type \in DOMAIN ClaimedSectionBonus
                  THEN ClaimedSectionBonus[section_type] ELSE 0)
               + (IF MetricNear(text, term, p) THEN 20 ELSE 0)
               + (IF VerbNear(text, term, p) THEN 10 ELSE 0)
    IN  IF sum > 200 THEN 200 ELSE sum

\* The terms of the skills, and the term an entity was matched by.
SkillTerms ==
    {HARD_SKILLS[i] : i \in 1..Len(HARD_SKILLS)}
    \cup {SOFT_SKILLS[i] : i \in 1..Len(SOFT_SKILLS)}
TermOf(entity) ==
    CHOOSE term \in SkillTerms : TermText(term) = entity.text.w

\* C16: every hard-skill or soft-skill entity has evidence_strength
\* min(2.0, 1.0 + section bonus + metric bonus + verb bonus), the section
\* bonus being 0.2 for experience, 0.15 for projects, 0.1 for summary and 0
\* otherwise, the metric bonus 0.2 iff a metric pattern occurs within 100
\* characters of the match, the verb bonus 0.1 iff an action verb occurs
\* there; so a skill of a skills section with no metric or verb near has
\* exactly 1.0, and every certification entity has 1.5.
C16_EvidenceStrength ==
    EntitiesExtracted =>
        \A i \in 1..Len(doc.result.entities) :
            LET entity == doc.result.entities[i]
                flat == TextEntries(doc.text, 1, 0)
            IN  /\ entity.entity_type \in {"hard_skill", "soft_skill"} =>
                      LET term == TermOf(entity)
                          p == Head(Occurrences(flat, term))
                      IN  /\ entity.evidence_strength =
                                 ClaimedStrength(doc.text, doc.section_type,
                                                 term, p)
                          /\ (/\ doc.section_type = "skills"
                              /\ ~MetricNear(doc.text, term, p)
                              /\ ~VerbNear(doc.text, term, p))
                                 => entity.evidence_strength = 100
                /\ entity.entity_type = "certification" =>
                      entity.evidence_strength = 150

\* A call for a projects section whose text has a soft skill with a metric
\* near and no action verb (1.35), a certification (1.5), and a hard skill
\* over 100 characters away from the metric (1.15).
C16_Witness ==
    /\ EntitiesExtracted
    /\ doc.section_type = "projects"
    /\ \E i, j, k \in 1..Len(doc.result.entities) :
          /\ doc.result.entities[i].entity_type = "soft_skill"
          /\ doc.result.entities[i].evidence_strength = 135
          /\ doc.result.entities[j].entity_type = "certification"
          /\ doc.result.entities[j].evidence_strength = 150
          /\ doc.result.entities[k].entity_type = "hard_skill"
          /\ doc.result.entities[k].evidence_strength = 115

\* The matches of the years-of-experience patterns in the words of a text,
\* each as the pattern and the word it begins at, and whether some match
\* captures a number.
YearsMatches(flat) ==
    {m \in (1..YearsPatterns) \X (1..Len(flat)) :
        YearsCaptured(flat, m[1], m[2]) # <<>>}
SomeCaptures(flat, matches, years) ==
    \E m \in matches :
        \E g \in 1..Len(YearsCaptured(flat, m[1], m[2])) :
            YearsCaptured(flat, m[1], m[2])[g] = years
NoneCapturesMore(flat, matches, years) ==
    \A m \in matches :
        \A g \in 1..Len(YearsCaptured(flat, m[1], m[2])) :
            YearsCaptured(flat, m[1], m[2])[g] <= years
SomeMatchCaptures(text, years) ==
    Let(TextEntries(text, 1, 0), LAMBDA flat :
        SomeCaptures(flat, YearsMatches(flat), years))
YearsExtracted ==
    /\ doc.pc = "done"
    /\ doc.op \in {"extract_years_experience", "parse_cv", "parse_jd"}

\* The result is the largest number captured in the words, None (-1) when
\* nothing matches.
IsMaxCaptured(flat, matches, years) ==
    IF matches = {} THEN years = -1
    ELSE /\ years # -1
         /\ SomeCaptures(flat, matches, years)
         /\ NoneCapturesMore(flat, matches, years)

\* C17: extract_years_experience returns the largest integer captured by
\* any match of any years-of-experience pattern in the text, and None
\* exactly when no pattern matches; parse_cv and parse_jd give the same as
\* years_experience and years_required.
C17_MaxYearsCaptured ==
    YearsExtracted =>
        Let(TextEntries(doc.text, 1, 0), LAMBDA flat :
            Let(YearsMatches(flat), LAMBDA matches :
                IsMaxCaptured(flat, matches, doc.result.years)))

\* parse_jd on two lines, "minimum 3 years" and the range "5- 7 years":
\* 3, 5 and 7 are captured and years_required is 7.
C17_Witness ==
    /\ doc.pc = "done" /\ doc.op = "parse_jd"
    /\ Len(doc.text) = 2
    /\ SomeMatchCaptures(doc.text, 3)
    /\ SomeMatchCaptures(doc.text, 5)
    /\ doc.result.years = 7

-----------------------------------------------------------------------------
(* SpecCache: one EmbeddingCache used directly, by get, put and clear in   *)
(* any order.  stored is a history field: the embedding last put under    *)
(* each key since the cache was last cleared.                              *)

MaxCacheOps == 5

CacheTexts == ScorerTexts \cup {ScorerText("duties text", FALSE)}

\* The embeddings a caller puts.
CacheEmbeddings ==
    {Encode(ScorerText("requirements text", FALSE)),
     Encode(ScorerText("skills text", FALSE))}

\* The last operation: its text, whether its key was cached when it began,
\* and what it returned.
CacheCall(op, text, cached, returned) ==
    [op |-> op, text |-> text, cached |-> cached, returned |-> returned]

\* History of the uses: the keys the eviction loop of a put removes from
\* the cache c, and the cached keys in the order of their latest use (a get
\* that hit, or a put), the least recently used first.
EvictedBy(c) == DOMAIN c.cache \ DOMAIN Evict(c).cache

Touched(used, evicted, key) ==
    Append(SelectSeq(used, LAMBDA k : k \notin evicted /\ k # key), key)

InitCache ==
    /\ scorer \in [pc : {"cache"},
                   c : {EmbeddingCache(n) : n \in 1..MaxCacheSize},
                   stored : {<<>>},
                   used : {<<>>},
                   evicted : {{}},
                   ops : {0},
                   last : {CacheCall("none", NoText, FALSE, NoVector)}]
    /\ hyb = Idle /\ run = Idle /\ doc = Idle /\ opt = Idle

CacheGet ==
    /\ scorer.pc = "cache" /\ scorer.ops < MaxCacheOps
    /\ \E text \in CacheTexts :
          scorer' = [scorer EXCEPT
                       !.c = get(@, text), !.ops = @ + 1,
                       !.used = IF Normalized(text) \in DOMAIN scorer.c.cache
                                THEN Touched(@, {}, Normalized(text)) ELSE @,
                       !.evicted = {},
                       !.last = CacheCall(
                                    "get", text,
                                    Normalized(text) \in DOMAIN scorer.c.cache,
                                    IF Normalized(text)
                                           \in DOMAIN scorer.c.cache
                                    THEN scorer.c.cache[Normalized(text)]
                                    ELSE NoVector)]
    /\ UNCHANGED <<hyb, run, doc, opt>>

CachePut ==
    /\ scorer.pc = "cache" /\ scorer.ops < MaxCacheOps
    /\ \E text \in CacheTexts, embedding \in CacheEmbeddings :
          scorer' = [scorer EXCEPT
                       !.c = put(@, text, embedding), !.ops = @ + 1,
                       !.used = Touched(@, EvictedBy(scorer.c),
                                        Normalized(text)),
                       !.evicted = EvictedBy(scorer.c),
                       !.stored = (Normalized(text) :> embedding)
                                  @@ Without(@, Normalized(text)),
                       !.last = CacheCall(
                                    "put", text,
                                    Normalized(text) \in DOMAIN scorer.c.cache,
                                    NoVector)]
    /\ UNCHANGED <<hyb, run, doc, opt>>

CacheClear ==
    /\ scorer.pc = "cache" /\ scorer.ops < MaxCacheOps
    /\ scorer' = [scorer EXCEPT
                    !.c = clear(@), !.ops = @ + 1, !.stored = <<>>,
                    !.used = <<>>, !.evicted = {},
                    !.last = CacheCall("clear", NoText, FALSE, NoVector)]
    /\ UNCHANGED <<hyb, run, doc, opt>>

NextCache ==
    \/ CacheGet
    \/ CachePut
    \/ CacheClear

SpecCache == InitCache /\ [][NextCache]_vars

\* C18: after any sequence of get, put and clear on an EmbeddingCache built
\* with maxsize >= 1, repeated puts of one normalized text included, the
\* cache never holds more than maxsize entries, and a get of a text whose
\* strip().lower() form is that of a text put before and not evicted since
\* returns the embedding stored for it.
C18_CacheBounded ==
    scorer.pc = "cache" =>
        /\ CacheLen(scorer.c) <= scorer.c.maxsize
        /\ (scorer.last.op = "get" /\ scorer.last.cached) =>
              /\ Normalized(scorer.last.text) \in DOMAIN scorer.stored
              /\ scorer.last.returned =
                     scorer.stored[Normalized(scorer.last.text)]

\* A full cache of two entries after one text was put twice, so that
\* access_order is longer than the cache, and a get by the other spelling
\* of that text returned the embedding of the second put.
C18_Witness ==
    /\ scorer.pc = "cache"
    /\ scorer.c.maxsize = 2 /\ CacheLen(scorer.c) = 2
    /\ Len(scorer.c.access_order) > 2
    /\ scorer.last.op = "get" /\ scorer.last.cached
    /\ scorer.last.text = ScorerText("requirements text", TRUE)
    /\ scorer.last.returned = Encode(ScorerText("skills text", FALSE))

-----------------------------------------------------------------------------
(* SpecRails: one call of calculate_semantic_score on a scorer whose model  *)
(* is loaded, from the matches on (lines 361-413): the sorted matches of   *)
(* the sections present, their weighted average as the raw score, the      *)
(* rails with the hard-entity counts of the two documents, and the result. *)
(* rail1 is a history field, the adjusted score and the gaps when the      *)
(* first rail has run.                                                     *)

MaxHardEntities == 3

\* The JD's hard-entity counts: none, and counts that put the ratio below,
\* at and above 0.3.
JdHardCounts == {0, 1, 4, 10}

\* The similarities, in tenths, with those at the thresholds 50 and 70.
RailSimValues == SimValues \cup {500, 700}

\* The CV sections present: one of no high value and the two of high
\* value.
RailCvKinds == InputCvKinds \cup {"projects"}

RailsIdle ==
    [pc |-> "idle", raw_score |-> FInt(0), matches |-> <<>>,
     cv_entities |-> 0, jd_entities |-> 0,
     rail1 |-> Railed(FInt(0), <<>>), railed |-> Railed(FInt(0), <<>>),
     semantic_result |-> SemanticSummary(UnavailableResult)]

InitRails ==
    /\ run = RailsIdle
    /\ hyb = Idle /\ scorer = Idle /\ doc = Idle /\ opt = Idle

\* The state after the call: without matches the rails are not reached.
RailsReturned(matches, cv_entities, jd_entities) ==
    IF matches = <<>>
    THEN [RailsIdle EXCEPT
            !.pc = "no_matches",
            !.cv_entities = cv_entities, !.jd_entities = jd_entities,
            !.semantic_result =
                SemanticSummary(ScoreMatches(matches, cv_entities,
                                             jd_entities))]
    ELSE [pc |-> "railed",
          raw_score |-> RawScore(matches),
          matches |-> matches,
          cv_entities |-> cv_entities,
          jd_entities |-> jd_entities,
          rail1 |-> SafetyRail1(RawScore(matches), cv_entities, jd_entities),
          railed |-> _apply_safety_rails(RawScore(matches), matches,
                                         cv_entities, jd_entities),
          semantic_result |->
              SemanticSummary(ScoreMatches(matches, cv_entities,
                                           jd_entities))]

ApplySafetyRails ==
    /\ run.pc = "idle"
    /\ \E jd_present \in SUBSET InputJdKinds,
          cv_present \in SUBSET RailCvKinds,
          cv_entities \in 0..MaxHardEntities,
          jd_entities \in JdHardCounts :
          \E sim \in [PresentPairs(jd_present, cv_present)
                         -> RailSimValues] :
              run' = RailsReturned(
                         MatchSectionsGiven(jd_present, cv_present, sim),
                         cv_entities, jd_entities)
    /\ UNCHANGED <<hyb, scorer, doc, opt>>

NextRails == ApplySafetyRails

SpecRails == InitRails /\ [][NextRails]_vars

\* The raw score is above 70 and the CV has fewer than 0.3 hard entities
\* per hard entity of the JD; no ratio exists for a JD without any.
EntitySparse ==
    /\ FLt(FInt(70), run.raw_score)
    /\ run.jd_entities > 0
    /\ 10 * run.cv_entities < 3 * run.jd_entities

IsIn(seq, x) == \E i \in 1..Len(seq) : seq[i] = x

\* C19: whenever the raw weighted-average score is above 70 and the CV's
\* hard-entity count over the JD's is below 0.3, the first rail takes
\* (raw - 70) * 0.5 off the score, before the later caps, and adds the
\* low-entity-coverage note to the gaps; otherwise it leaves the score as
\* it is and adds no note.
C19_EntitySparsityRail ==
    run.pc = "railed" =>
        /\ EntitySparse =>
              /\ FAdd(run.rail1.score,
                      FMul(FSub(run.raw_score, FInt(70)), Frac(1, 2)))
                     = run.raw_score
              /\ run.rail1.gaps = <<"Low entity coverage">>
              /\ IsIn(run.semantic_result.gaps, "Low entity coverage")
        /\ ~EntitySparse =>
              /\ run.rail1 = Railed(run.raw_score, <<>>)
              /\ ~IsIn(run.semantic_result.gaps, "Low entity coverage")
        /\ run.railed =
              Railed(ClampScore(SafetyRail3(SafetyRail2(run.rail1,
                                                        run.matches),
                                            run.matches).score),
                     SafetyRail3(SafetyRail2(run.rail1, run.matches),
                                 run.matches).gaps)

\* A raw score of 90 with one CV hard entity against four of the JD: the
\* first rail leaves 80, no later cap applies, and 80 is returned with the
\* note alone.
C19_Witness ==
    /\ run.pc = "railed"
    /\ run.raw_score = FInt(90)
    /\ run.cv_entities = 1 /\ run.jd_entities = 4
    /\ run.rail1.score = FInt(80)
    /\ run.railed = Railed(FInt(80), <<"Low entity coverage">>)
    /\ run.semantic_result.score = FInt(80)

\* No match whose CV section is Experience or Projects has a similarity
\* above 50.
NoStrongExperienceMatch ==
    \A i \in 1..Len(run.matches) :
        run.matches[i].cv_section \in {"experience", "projects"}
            => run.matches[i].similarity <= 500

\* C20: whenever no match whose CV section is Experience or Projects has a
\* similarity above 50, which is when high_value_match_count is 0, the
\* score calculate_semantic_score returns is at most 60.
C20_NoStrongMatchCap ==
    run.pc \in {"railed", "no_matches"} =>
        /\ NoStrongExperienceMatch
               <=> run.semantic_result.high_value_match_count = 0
        /\ NoStrongExperienceMatch =>
               FLe(run.semantic_result.score, FInt(60))

\* Skills and requirements agree at 90 and the projects match is at 50
\* exactly, which is not above 50: the raw score of 66 is capped and 60 is
\* returned with the note of the second rail.
C20_Witness ==
    /\ run.pc = "railed"
    /\ NoStrongExperienceMatch
    /\ \E i \in 1..Len(run.matches) :
          /\ run.matches[i].cv_section = "projects"
          /\ run.matches[i].similarity = 500
    /\ FLt(FInt(60), run.raw_score)
    /\ run.semantic_result.score = FInt(60)
    /\ IsIn(run.semantic_result.gaps,
            "No strong Experience/Projects matches")

\* C21: whenever fewer than two JD-section/CV-section pairs were matched,
\* the score calculate_semantic_score returns is at most 50; when no pair
\* matched at all it is 0.0 with the note "No matchable sections found".
C21_SparseCoverageCap ==
    run.pc \in {"railed", "no_matches"} =>
        /\ Len(run.matches) < 2 =>
               FLe(run.semantic_result.score, FInt(50))
        /\ Len(run.matches) = 0 =>
               /\ run.semantic_result.score = FInt(0)
               /\ run.semantic_result.gaps = <<"No matchable sections found">>
               /\ run.semantic_result.available

\* One match alone, of an experience section at 90: neither of the first
\* two rails applies, the third caps the score, and 50 is returned with its
\* note alone.
C21_Witness ==
    /\ run.pc = "railed"
    /\ Len(run.matches) = 1
    /\ run.matches[1].cv_section = "experience"
    /\ run.raw_score = FInt(90)
    /\ run.semantic_result.score = FInt(50)
    /\ run.semantic_result.gaps = <<"Limited section coverage">>

-----------------------------------------------------------------------------
(* SpecGap: the gap analysis of ats_optimizer.py.  One step is a call of   *)
(* _calculate_section_match on the entities of two parsed documents, or    *)
(* the gap analysis of one calculate_ats_score: the section match (line    *)
(* 707), the semantic result of the matched sections and the suggestions   *)
(* of _generate_actionable_suggestions (line 908) for the missing keywords *)
(* of the lexical scores.  Skills are lowercased strings, similarities     *)
(* tenths of a per cent.                                                   *)

MaxGapEntities == 2

\* Lines 485-486: the lowercased texts of a list of entities.
LowerTexts(entities) == {Lower(entities[i].text) : i \in 1..Len(entities)}

\* Lines 490-496: the lowercased texts of the CV entities per section, a
\* missing section counted as 'unknown'.
EntitySection(entity) ==
    IF entity.section = None THEN "unknown" ELSE entity.section

cv_skills_by_section(entities) ==
    [section \in {EntitySection(entities[i]) : i \in 1..Len(entities)} |->
        {Lower(entities[i].text) :
            i \in {j \in 1..Len(entities) :
                      EntitySection(entities[j]) = section}}]

\* cv_skills_by_section.get(section, set()).
SkillsOfSection(by_section, section) ==
    IF section \in DOMAIN by_section THEN by_section[section] ELSE {}

\* A section match that looks in the skills section first.
SkillsFirstListOf(skill, by_section) ==
    IF skill \in SkillsOfSection(by_section, "skills")
    THEN "skills_matches"
    ELSE IF skill \in SkillsOfSection(by_section, "experience")
    THEN "experience_matches"
    ELSE IF skill \in SkillsOfSection(by_section, "projects")
    THEN "projects_matches"
    ELSE IF \E section \in DOMAIN by_section : skill \in by_section[section]
    THEN "other_matches"
    ELSE "not_found"

\* Lines 499-519: the list one JD skill is appended to.
ListOf(skill, by_section) ==
    IF skill \in SkillsOfSection(by_section, "experience")
    THEN "experience_matches"
    ELSE IF skill \in SkillsOfSection(by_section, "projects")
    THEN "projects_matches"
    ELSE IF skill \in SkillsOfSection(by_section, "skills")
    THEN "skills_matches"
    ELSE IF \E section \in DOMAIN by_section : skill \in by_section[section]
    THEN "other_matches"
    ELSE "not_found"

SectionMatchLists ==
    {"experience_matches", "skills_matches", "projects_matches",
     "other_matches", "not_found"}

\* The orders in which a set can be iterated.
IterationOrders(S) ==
    {order \in [1..Cardinality(S) -> S] :
        \A i, j \in 1..Cardinality(S) : i # j => order[i] # order[j]}

\* _calculate_section_match (lines 471-521); all_jd_skills is the iteration
\* of the set jd_required | jd_preferred, in the order the interpreter
\* gives it.
_calculate_section_match(cv_entities, all_jd_skills) ==
    [list \in SectionMatchLists |->
        SelectSeq(all_jd_skills,
                  LAMBDA skill :
                      ListOf(skill, cv_skills_by_section(cv_entities)) = list)]

\* Lines 533-538.
priority_order ==
    << <<"critical_keywords", "critical">>, <<"required", "required">>,
       <<"hard_skills", "hard_skills">>, <<"preferred", "preferred">> >>

Prioritised(skills, priority) ==
    [i \in 1..Len(skills) |-> [skill |-> skills[i], priority |-> priority]]

\* Lines 541-545: the first five missing skills of each category of
\* priority_order from its k-th on.
RECURSIVE MissingOfCategories(_, _)
MissingOfCategories(scores, k) ==
    IF k > Len(priority_order) THEN <<>>
    ELSE (IF priority_order[k][1] \in DOMAIN scores
          THEN Prioritised(FirstN(scores[priority_order[k][1]].missing, 5),
                           priority_order[k][2])
          ELSE <<>>)
         \o MissingOfCategories(scores, k + 1)

\* Lines 548-550: the skills not found by the section match that are not
\* yet listed.
RECURSIVE AddNotFound(_, _)
AddNotFound(missing_by_priority, not_found) ==
    IF not_found = <<>> THEN missing_by_priority
    ELSE AddNotFound(
             IF \E i \in 1..Len(missing_by_priority) :
                    missing_by_priority[i].skill = Head(not_found)
             THEN missing_by_priority
             ELSE Append(missing_by_priority,
                         [skill |-> Head(not_found), priority |-> "required"]),
             Tail(not_found))

missing_by_priority(section_matches, scores) ==
    AddNotFound(MissingOfCategories(scores, 1),
                FirstN(section_matches["not_found"], 5))

\* Line 556.
section_priority == <<"experience", "projects", "skills">>

\* section_scores.get(section, 50.0), in tenths (line 564).
SectionScore(section_scores, section) ==
    IF section \in DOMAIN section_scores THEN section_scores[section] ELSE 500

\* Lines 560-567: the loop over section_priority from its k-th section on;
\* best is the pair of best_section and best_score.
RECURSIVE BestSection(_, _, _)
BestSection(section_scores, k, best) ==
    IF k > Len(section_priority) THEN best
    ELSE BestSection(
             section_scores, k + 1,
             IF SectionScore(section_scores, section_priority[k])
                    < best.best_score
             THEN [best_section |-> section_priority[k],
                   best_score |->
                       SectionScore(section_scores, section_priority[k])]
             ELSE best)

\* Lines 569-575: one suggestion.
Suggestion(missing, best) ==
    [skill |-> missing.skill, priority |-> missing.priority,
     recommended_section |-> best.best_section,
     section_score |-> Round1(Frac(best.best_score, 10))]

\* _generate_actionable_suggestions (lines 523-577).
_generate_actionable_suggestions(section_matches, semantic_result, scores) ==
    LET missing == FirstN(missing_by_priority(section_matches, scores), 10)
        best == BestSection(semantic_result.section_similarities, 1,
                            [best_section |-> "skills", best_score |-> 1000])
    IN  [i \in 1..Len(missing) |-> Suggestion(missing[i], best)]

\* The entities of the parsed documents: two skills in the sections the
\* match tells apart, one of them in two spellings.
GapCvEntities ==
    {Entity(Text("python", "T"), "hard_skill", s, 100) :
         s \in {"experience", "projects", "skills", "summary", None}}
    \cup {Entity(Text("python", "l"), "hard_skill", "skills", 100),
          Entity(Text("aws", "U"), "hard_skill", "experience", 100),
          Entity(Text("aws", "U"), "hard_skill", "education", 100)}

GapRequiredEntities ==
    {Entity(Text("python", "T"), "hard_skill", "requirements", 100),
     Entity(Text("aws", "U"), "hard_skill", "requirements", 100),
     Entity(Text("docker", "T"), "hard_skill", "qualifications", 100)}

GapPreferredEntities ==
    {Entity(Text("python", "U"), "hard_skill", "preferred", 100),
     Entity(Text("docker", "T"), "hard_skill", "preferred", 100)}

\* The missing keywords of a category of the lexical scores: none, one, or
\* more than the five a category may contribute.
MissingInputs ==
    {<<>>, <<"docker">>,
     <<"kafka", "spark", "scala", "flink", "hive", "presto">>}

ScoresInputs ==
    {[cat \in {"critical_keywords", "required", "hard_skills", "preferred"}
         |-> [missing |-> IF cat = "critical_keywords" THEN critical
                          ELSE IF cat = "required" THEN required
                          ELSE IF cat = "hard_skills" THEN hard
                          ELSE <<>>]] :
        critical \in MissingInputs, required \in MissingInputs,
        hard \in {<<>>, <<"terraform">>}}

\* round(cosine * 100, 1) in tenths: below the default of 50 the
\* suggestions use, and two values above it.
GapSimValues == {450, 650, 900}

GapIdle ==
    [pc |-> "idle", cv_entities |-> <<>>, all_jd_skills |-> <<>>,
     section_matches |-> _calculate_section_match(<<>>, <<>>),
     matches |-> <<>>, section_similarities |-> <<>>,
     scores |-> [cat \in {} |-> <<>>], suggestions |-> <<>>]

InitGap ==
    /\ opt = GapIdle
    /\ hyb = Idle /\ run = Idle /\ scorer = Idle /\ doc = Idle

\* One call of _calculate_section_match.
CalculateSectionMatch ==
    /\ opt.pc = "idle"
    /\ \E cv_entities \in SeqsUpTo(GapCvEntities, MaxGapEntities),
          required_entities \in SeqsUpTo(GapRequiredEntities, MaxGapEntities),
          preferred_entities \in SeqsUpTo(GapPreferredEntities, 1) :
          \E all_jd_skills \in
                 IterationOrders(LowerTexts(required_entities)
                                 \cup LowerTexts(preferred_entities)) :
              opt' = [GapIdle EXCEPT
                        !.pc = "section_matched",
                        !.cv_entities = cv_entities,
                        !.all_jd_skills = all_jd_skills,
                        !.section_matches =
                            _calculate_section_match(cv_entities,
                                                     all_jd_skills)]
    /\ UNCHANGED <<hyb, run, scorer, doc>>

\* The gap analysis of one calculate_ats_score whose semantic scorer is
\* loaded: lines 707, 713 and 908.
GenerateSuggestions ==
    /\ opt.pc = "idle"
    /\ \E cv_entities \in SeqsUpTo({e \in GapCvEntities : e.text.c = "T"}, 1),
          required_entities \in SeqsUpTo(GapRequiredEntities, 1),
          jd_present \in SUBSET InputJdKinds,
          cv_present \in SUBSET RailCvKinds,
          scores \in ScoresInputs :
          \E sim \in [PresentPairs(jd_present, cv_present) -> GapSimValues],
             all_jd_skills \in IterationOrders(LowerTexts(required_entities)) :
              Let(MatchSectionsGiven(jd_present, cv_present, sim),
                  LAMBDA matches :
                      Let(_calculate_section_match(
                              cv_entities, all_jd_skills),
                          LAMBDA section_matches :
          opt' = [GapIdle EXCEPT
                    !.pc = "suggested",
                    !.cv_entities = cv_entities,
                    !.all_jd_skills = all_jd_skills,
                    !.section_matches = section_matches,
                    !.matches = matches,
                    !.scores = scores,
                    !.section_similarities =
                        ScoreMatches(
                            matches, _count_hard_entities(cv_entities),
                            _count_hard_entities(required_entities)
                        ).section_similarities,
                    !.suggestions =
                        _generate_actionable_suggestions(
                            section_matches,
                            ScoreMatches(
                                matches, _count_hard_entities(cv_entities),
                                _count_hard_entities(required_entities)),
                            scores)]))
    /\ UNCHANGED <<hyb, run, scorer, doc>>

NextGap == CalculateSectionMatch \/ GenerateSuggestions

SpecGap == InitGap /\ [][NextGap]_vars

\* The similarities the semantic result holds for a CV section: those of
\* its matches with that cv_section.
SimilaritiesOf(matches, section) ==
    {matches[i].similarity :
        i \in {j \in 1..Len(matches) : matches[j].cv_section = section}}

\* A CV section every similarity of which is below every similarity of the
\* two other sections, all three having been matched.
LowestSimilarity(matches, section) ==
    /\ \A other \in {"experience", "projects", "skills"} :
           SimilaritiesOf(matches, other) # {}
    /\ \A other \in {"experience", "projects", "skills"} \ {section} :
           \A own \in SimilaritiesOf(matches, section),
              theirs \in SimilaritiesOf(matches, other) : own < theirs

\* C22: every suggestion recommends the CV section -- of experience,
\* projects and skills -- with the lowest similarity in the semantic result,
\* and its section_score is that section's similarity; stated for the
\* results in which one section is the lowest however the similarities of
\* a section with several JD sections are combined.
C22_LowestSimilaritySection ==
    opt.pc = "suggested" =>
        \A i \in 1..Len(opt.suggestions) :
            \A section \in {"experience", "projects", "skills"} :
                LowestSimilarity(opt.matches, section) =>
                    /\ opt.suggestions[i].recommended_section = section
                    /\ opt.suggestions[i].section_score
                           \in SimilaritiesOf(opt.matches, section)

-----------------------------------------------------------------------------
(* The frequency keywords of a scoring on SpecOpt.                         *)

\* The lowercased keywords a category holds, matched or missing.
TrackedBy(scores, category) ==
    {Lower(scores[category].matched[i]) :
        i \in 1..Len(scores[category].matched)}
    \cup {Lower(scores[category].missing[i]) :
              i \in 1..Len(scores[category].missing)}

\* C23: every keyword of frequency_keywords, matched or missing, is one of
\* the top 20 unigrams of the job description and is, in lowercase, neither
\* matched nor missing in any of the five other categories.
C23_FrequencyKeywordsUncategorized ==
    (opt.pc = "on" /\ opt.last.op = "calculate_ats_score") =>
        /\ Len(opt.scored.top_job_unigrams) <= TopUnigrams
        /\ \A keyword \in TrackedBy(opt.scored.scores, "frequency_keywords") :
               /\ IsIn(opt.scored.top_job_unigrams, keyword)
               /\ \A cat \in CategorySet \ {"frequency_keywords"} :
                      keyword \notin TrackedBy(opt.scored.scores, cat)

-----------------------------------------------------------------------------
(* The section match of SpecGap.                                           *)

\* Some CV entity with that lowercased text was extracted from the section.
FoundIn(cv_entities, skill, section) ==
    \E i \in 1..Len(cv_entities) :
        /\ Lower(cv_entities[i].text) = skill
        /\ cv_entities[i].section = section

FoundAnywhere(cv_entities, skill) ==
    \E i \in 1..Len(cv_entities) : Lower(cv_entities[i].text) = skill

\* The number of places a skill takes in the five lists.
PlacesOf(section_matches, skill) ==
    Cardinality({<<list, i>> \in SectionMatchLists \X (1..3) :
                    /\ i <= Len(section_matches[list])
                    /\ section_matches[list][i] = skill})

\* C24: every distinct required or preferred JD skill is in exactly one of
\* the five lists of the section match, by the priority experience,
\* projects, skills, any other section, not found: in experience_matches
\* exactly when a CV entity with its text comes from an experience section,
\* in not_found exactly when no CV entity has its text.
C24_SectionMatchPriority ==
    opt.pc \in {"section_matched", "suggested"} =>
        \A k \in 1..Len(opt.all_jd_skills) :
            Let(opt.all_jd_skills[k],
                LAMBDA skill :
                    /\ PlacesOf(opt.section_matches, skill) = 1
                    /\ IsIn(opt.section_matches["experience_matches"], skill)
                           <=> FoundIn(opt.cv_entities, skill, "experience")
                    /\ IsIn(opt.section_matches["projects_matches"], skill)
                           <=> /\ ~FoundIn(opt.cv_entities, skill, "experience")
                               /\ FoundIn(opt.cv_entities, skill, "projects")
                    /\ IsIn(opt.section_matches["skills_matches"], skill)
                           <=> /\ ~FoundIn(opt.cv_entities, skill, "experience")
                               /\ ~FoundIn(opt.cv_entities, skill, "projects")
                               /\ FoundIn(opt.cv_entities, skill, "skills")
                    /\ IsIn(opt.section_matches["other_matches"], skill)
                           <=> /\ ~FoundIn(opt.cv_entities, skill, "experience")
                               /\ ~FoundIn(opt.cv_entities, skill, "projects")
                               /\ ~FoundIn(opt.cv_entities, skill, "skills")
                               /\ FoundAnywhere(opt.cv_entities, skill)
                    /\ IsIn(opt.section_matches["not_found"], skill)
                           <=> ~FoundAnywhere(opt.cv_entities, skill))

\* "python" in the skills section and "Python" in the experience section of
\* the CV, the job asking for python, aws and docker: python is an
\* experience match alone, the two others are not found.
C24_Witness ==
    /\ opt.pc = "section_matched"
    /\ Len(opt.cv_entities) = 2
    /\ opt.cv_entities[1] = Entity(Text("python", "l"), "hard_skill", "skills",
                                   100)
    /\ opt.cv_entities[2] = Entity(Text("python", "T"), "hard_skill",
                                   "experience", 100)
    /\ opt.all_jd_skills = <<"docker", "python", "aws">>
    /\ opt.section_matches["experience_matches"] = <<"python">>
    /\ opt.section_matches["skills_matches"] = <<>>
    /\ opt.section_matches["not_found"] = <<"docker", "aws">>

-----------------------------------------------------------------------------
(* The lazy load of a scorer of SpecScorer.                                *)

\* C25: constructing the scorer loads nothing; over every sequence of
\* embed_text, embed_batch and calculate_semantic_score calls the model
\* constructor is called at most once, by the first call when
\* sentence-transformers is installed and never otherwise, and every later
\* call leaves the model, or its absence, as that load left it.
C25_LazyLoadOnce ==
    [][scorer.pc = "on" =>
         /\ (scorer.calls = 0 =>
                /\ scorer.sc.loads = 0
                /\ ~scorer.sc.model_loaded
                /\ scorer.sc.model = None)
         /\ scorer'.sc.loads <= 1
         /\ (scorer.calls = 0 =>
                scorer'.sc.loads = IF scorer.st_available THEN 1 ELSE 0)
         /\ (scorer.calls > 0 =>
                /\ scorer'.sc.loads = scorer.sc.loads
                /\ scorer'.sc.model = scorer.sc.model
                /\ scorer'.sc.failed = scorer.sc.failed)]_vars

\* Two calls made, the second a batch, the constructor called once and the
\* model it returned in place.
C25_Witness ==
    /\ scorer.pc = "on"
    /\ scorer.st_available
    /\ scorer.calls >= 2
    /\ scorer.sc.loads = 1
    /\ scorer.sc.model = "model"
    /\ ~scorer.sc.failed
    /\ scorer.last.op = "embed_batch"

-----------------------------------------------------------------------------
(* The eviction order of the cache of SpecCache.                           *)

\* C26: whenever a put on a full cache evicts a key, that key is the one
\* least recently used, a use being a get that hit or a put; repeated puts
\* of a cached key are among the sequences.
C26_EvictsLeastRecentlyUsed ==
    [][(scorer.pc = "cache" /\ scorer'.last.op = "put"
           /\ scorer'.evicted # {})
          => scorer'.evicted = {Head(scorer.used)}]_vars

-----------------------------------------------------------------------------
(* SpecRequirements: _parse_llm_requirements on the text of the            *)
(* requirements.  The text is the list of its stripped lines, a line the   *)
(* list of its words, each with its case and the ':' or ',' written after  *)
(* it; a word "" with a ',' after it is a comma standing alone.  An item   *)
(* is the list of its words.                                               *)

MaxRequirementLines == 3

\* The prefixes of lines 383-400 in the order of the elif chain, as words,
\* and the names HeaderSection knows them by.
HeaderWords ==
    << <<"hard", "skills">>, <<"soft", "skills">>, <<"qualifications">>,
       <<"required", "qualifications">>, <<"critical", "keywords">>,
       <<"required">>, <<"must", "have">>, <<"preferred">>,
       <<"nice", "to", "have">> >>

HeaderNames ==
    <<"hard skills", "soft skills", "qualifications",
      "required qualifications", "critical keywords", "required",
      "must have", "preferred", "nice to have">>

\* A recognition that wants the header in lower case.
StartsWithLowercaseHeader(line, words) ==
    /\ Len(line) >= Len(words)
    /\ \A k \in 1..Len(words) :
           /\ line[k].w = words[k]
           /\ line[k].c = "l"
           /\ line[k].s = IF k = Len(words) THEN ":" ELSE ""

\* line_lower.startswith(prefix): the words of the prefix, in any case, one
\* space apart and the colon right after the last.
StartsWithHeader(line, words) ==
    /\ Len(line) >= Len(words)
    /\ \A k \in 1..Len(words) :
           /\ line[k].w = words[k]
           /\ line[k].s = IF k = Len(words) THEN ":" ELSE ""

\* Lines 383-402: the index of the first prefix of the chain, from the k-th
\* on, that the line starts with; 0 when it starts with none.
RECURSIVE HeaderIndex(_, _)
HeaderIndex(line, k) ==
    IF k > Len(HeaderWords) THEN 0
    ELSE IF StartsWithHeader(line, HeaderWords[k]) THEN k
    ELSE HeaderIndex(line, k + 1)

\* strip() of an item: the words of it that are written.
Stripped(item) == SelectSeq(item, LAMBDA t : t.w # "" \/ t.s # "")

\* Line 406: content.split(','), each item stripped, the empty ones dropped;
\* item holds the words read since the last comma.
RECURSIVE SplitItems(_, _)
SplitItems(content, item) ==
    IF content = <<>>
    THEN IF Stripped(item) = <<>> THEN <<>> ELSE <<Stripped(item)>>
    ELSE IF Head(content).s = ","
    THEN (IF Stripped(Append(item, [Head(content) EXCEPT !.s = ""])) = <<>>
          THEN <<>>
          ELSE <<Stripped(Append(item, [Head(content) EXCEPT !.s = ""]))>>)
         \o SplitItems(Tail(content), <<>>)
    ELSE SplitItems(Tail(content), Append(item, Head(content)))

\* Lines 378-406 for one line: the header it starts with and the items of
\* its content, which is what follows the first colon of a header line and
\* the whole of any other line.
RequirementLine(line) ==
    IF HeaderIndex(line, 1) = 0
    THEN ReqLine("", SplitItems(line, <<>>))
    ELSE ReqLine(HeaderNames[HeaderIndex(line, 1)],
                 SplitItems(SubSeq(line,
                                   Len(HeaderWords[HeaderIndex(line, 1)]) + 1,
                                   Len(line)),
                            <<>>))

\* _parse_llm_requirements (lines 364-410) on the text.
ParseRequirementText(llm_output) ==
    _parse_llm_requirements(
        [i \in 1..Len(llm_output) |-> RequirementLine(llm_output[i])])

Word(w, c) == Tok(w, c, "")

\* "Required: Python, AWS", "REQUIRED: python", "must have: Docker",
\* "Preferred:", "Nice To Have: Kafka, , Scala", "Python, Machine Learning",
\* "Also required: Spark", "Required Qualifications: BSc",
\* "Required Skills: Go", "Hard Skills: SQL", "Soft skills: Teamwork,",
\* "Critical Keywords: Python", "Qualifications: MSc" and the blank line.
RequirementTextLines ==
    {<<>>,
     <<Tok("required", "T", ":"), Tok("python", "T", ","), Word("aws", "U")>>,
     <<Tok("required", "U", ":"), Word("python", "l")>>,
     <<Word("must", "l"), Tok("have", "l", ":"), Word("docker", "T")>>,
     <<Tok("preferred", "T", ":")>>,
     <<Word("nice", "T"), Word("to", "T"), Tok("have", "T", ":"),
       Tok("kafka", "T", ","), Tok("", "l", ","), Word("scala", "T")>>,
     <<Tok("python", "T", ","), Word("machine", "T"), Word("learning", "T")>>,
     <<Word("also", "T"), Tok("required", "l", ":"), Word("spark", "T")>>,
     <<Word("required", "T"), Tok("qualifications", "T", ":"),
       Word("bsc", "T")>>,
     <<Word("required", "T"), Tok("skills", "T", ":"), Word("go", "T")>>,
     <<Word("hard", "T"), Tok("skills", "T", ":"), Word("sql", "U")>>,
     <<Word("soft", "T"), Tok("skills", "l", ":"), Tok("teamwork", "T", ",")>>,
     <<Word("critical", "T"), Tok("keywords", "T", ":"), Word("python", "T")>>,
     <<Tok("qualifications", "T", ":"), Word("msc", "T")>>}

InitRequirements ==
    /\ opt = [pc |-> "idle", llm_output |-> <<>>, result |-> NoRequirements]
    /\ hyb = Idle /\ run = Idle /\ scorer = Idle /\ doc = Idle

ParseLlmRequirements ==
    /\ opt.pc = "idle"
    /\ \E llm_output \in SeqsUpTo(RequirementTextLines, MaxRequirementLines) :
          opt' = [pc |-> "parsed", llm_output |-> llm_output,
                  result |-> ParseRequirementText(llm_output)]
    /\ UNCHANGED <<hyb, run, scorer, doc>>

NextRequirements == ParseLlmRequirements

SpecRequirements == InitRequirements /\ [][NextRequirements]_vars

\* The headers a line begins with when its case is ignored: the lowercased
\* words of the header, then a colon.
HeadersOf(line) ==
    {k \in 1..Len(HeaderWords) :
        /\ Len(line) >= Len(HeaderWords[k])
        /\ \A j \in 1..Len(HeaderWords[k]) : line[j].w = HeaderWords[k][j]
        /\ \A j \in 1..(Len(HeaderWords[k]) - 1) : line[j].s = ""
        /\ line[Len(HeaderWords[k])].s = ":"}

\* The category of the header a line begins with.
CategoryOf(line) ==
    HeaderSection[HeaderNames[CHOOSE k \in HeadersOf(line) : TRUE]]

\* The last header line at or before line i of the text, 0 when there is
\* none.
HeaderLineOf(text, i) ==
    IF \E j \in 1..i : HeadersOf(text[j]) # {}
    THEN CHOOSE j \in 1..i :
             /\ HeadersOf(text[j]) # {}
             /\ \A k \in (j + 1)..i : HeadersOf(text[k]) = {}
    ELSE 0

\* The comma-separated items written on a line: after its header when it
\* begins with one, on the whole line otherwise.
ItemsWritten(line) ==
    IF HeadersOf(line) = {} THEN SplitItems(line, <<>>)
    ELSE SplitItems(
             SubSeq(line,
                    Len(HeaderWords[CHOOSE k \in HeadersOf(line) : TRUE]) + 1,
                    Len(line)),
             <<>>)

\* The category each line of the text stands under, "" before the first
\* header, and the items written on each line.
CategoriesOfLines(text) ==
    [i \in 1..Len(text) |->
        IF HeaderLineOf(text, i) = 0 THEN ""
        ELSE CategoryOf(text[HeaderLineOf(text, i)])]

ItemsOfLines(text) == [i \in 1..Len(text) |-> ItemsWritten(text[i])]

\* The items of the lines, from the i-th on, that stand under the category.
RECURSIVE ItemsUnder(_, _, _, _)
ItemsUnder(categories, items, category, i) ==
    IF i > Len(items) THEN <<>>
    ELSE (IF categories[i] = category THEN items[i] ELSE <<>>)
         \o ItemsUnder(categories, items, category, i + 1)

\* C27: the requirements text is parsed line by line with a current
\* section: a line before the first header gives no item to any category, a
\* header is recognised at the start of a line whatever its case, and the
\* comma-separated items after a header and on the lines that follow it go
\* to the category of that header until the next header.
C27_ItemsFollowTheirHeader ==
    opt.pc = "parsed" =>
        Let(CategoriesOfLines(opt.llm_output) \o <<>>,
            LAMBDA categories :
                Let(ItemsOfLines(opt.llm_output) \o <<>>,
                    LAMBDA items :
                        \A category \in DOMAIN NoRequirements :
                            opt.result[category] =
                                ItemsUnder(categories, items, category, 1)))

\* "Python, Machine Learning" before any header, then "REQUIRED: python"
\* and "Nice To Have: Kafka, , Scala": the first line is dropped, the
\* upper-case header opens required, the third line preferred.
C27_Witness ==
    /\ opt.pc = "parsed"
    /\ Len(opt.llm_output) = 3
    /\ opt.llm_output[1] = <<Tok("python", "T", ","), Word("machine", "T"),
                             Word("learning", "T")>>
    /\ opt.llm_output[2] = <<Tok("required", "U", ":"), Word("python", "l")>>
    /\ opt.result["required"] = << <<Word("python", "l")>> >>
    /\ opt.result["preferred"] =
           << <<Word("kafka", "T")>>, <<Word("scala", "T")>> >>
    /\ \A category \in DOMAIN NoRequirements \ {"required", "preferred"} :
           opt.result[category] = <<>>

-----------------------------------------------------------------------------
(* The line ranges of the sections detected on SpecParse.                  *)

\* C28: the sections detect_cv_sections and detect_jd_sections return
\* partition the lines of the document: the first starts at line 0, each
\* next one at the line after the end of the one before, the last ends at
\* the last line, none ends before it starts, and the content of a section
\* of a known type is the lines after its header line up to its end_line.
C28_SectionsPartitionLines ==
    SectionsDetected =>
        Let(doc.result.sections,
            LAMBDA secs :
                /\ secs # <<>>
                /\ secs[1].start_line = 0
                /\ \A k \in 1..(Len(secs) - 1) :
                       secs[k + 1].start_line = secs[k].end_line + 1
                /\ secs[Len(secs)].end_line = Len(doc.text) - 1
                /\ \A k \in 1..Len(secs) :
                       /\ secs[k].start_line <= secs[k].end_line
                       /\ secs[k].section_type # "unknown" =>
                              secs[k].content =
                                  SubSeq(doc.text, secs[k].start_line + 2,
                                         secs[k].end_line + 1))

\* Three sections on three lines: a line before the first header, a header
\* followed at once by the next header, which is the last line.
C28_Witness ==
    /\ SectionsDetected
    /\ Len(doc.text) = 3
    /\ Len(doc.result.sections) = 3
    /\ doc.result.sections[1].section_type = "unknown"
    /\ doc.result.sections[1].end_line = 0
    /\ doc.result.sections[2].section_type # "unknown"
    /\ doc.result.sections[2].content = <<>>
    /\ doc.result.sections[2].start_line = 1
    /\ doc.result.sections[2].end_line = 1
    /\ doc.result.sections[3].section_type # "unknown"
    /\ doc.result.sections[3].start_line = 2
    /\ doc.result.sections[3].end_line = 2

-----------------------------------------------------------------------------
(* The evidence of a scoring on SpecOpt, strengths in hundredths and the   *)
(* evidence score in tenths.                                               *)

StrengthInRange(strength) == 100 <= strength /\ strength <= 150

-----------------------------------------------------------------------------
\* CVStore (src/backend/job_store.py:637-870): the table cvs of the SQLite
\* database, one row per stored CV.  A row is modelled by the two columns the
\* default flag depends on, user_id and is_default; the table is a function
\* from the ids of its rows.  id is INTEGER PRIMARY KEY AUTOINCREMENT
\* (line 84), so the id of a deleted row is never given again: next_id
\* counts the rows ever inserted.

\* The rows ever inserted in a run.
MaxCvs == 3

\* The calls of a run.
MaxStoreOps == 4

\* The users owning CVs; create_cv stores "default" when no user is given
\* (line 643).
StoreUsers == {"default", "alice"}

\* UPDATE cvs SET is_default = 0 WHERE user_id = ? (lines 651 and 824).
ClearDefaults(cvs, user_id) ==
    [id \in DOMAIN cvs |->
        IF cvs[id].user_id = user_id
        THEN [cvs[id] EXCEPT !.is_default = 0]
        ELSE cvs[id]]

\* The rows of UPDATE ... WHERE id = ? AND user_id = ? (line 827) and of
\* DELETE ... WHERE id = ? AND user_id = ? (line 795).
OwnedRows(cvs, cv_id, user_id) ==
    {id \in DOMAIN cvs : id = cv_id /\ cvs[id].user_id = user_id}

\* create_cv (lines 643-674): with is_default the defaults of the user are
\* cleared first, then the row is inserted under the next id.
create_cv(cvs, next_id, user_id, is_default) ==
    Let(IF is_default THEN ClearDefaults(cvs, user_id) ELSE cvs,
        LAMBDA cleared :
            [id \in DOMAIN cleared \cup {next_id} |->
                IF id = next_id
                THEN [user_id |-> user_id,
                      is_default |-> IF is_default THEN 1 ELSE 0]
                ELSE cleared[id]])

\* delete_cv (lines 789-806): the row of that id, of that user when a user is
\* given; the result is rowcount > 0.
delete_cv(cvs, cv_id, user_id) ==
    Let(IF user_id # None THEN OwnedRows(cvs, cv_id, user_id)
        ELSE {id \in DOMAIN cvs : id = cv_id},
        LAMBDA rows :
            [cvs |-> [id \in DOMAIN cvs \ rows |-> cvs[id]],
             result |-> rows # {}])

\* The second half of set_default (lines 823-834), once the user is known:
\* the defaults of the user are cleared, the row of that id and that user is
\* made the default, both updates are committed, and the result is the
\* rowcount of the second update.
SetDefaultOf(cvs, cv_id, user_id) ==
    Let(ClearDefaults(cvs, user_id),
        LAMBDA cleared :
            [cvs |-> [id \in DOMAIN cleared |->
                         IF id \in OwnedRows(cleared, cv_id, user_id)
                         THEN [cleared[id] EXCEPT !.is_default = 1]
                         ELSE cleared[id]],
             result |-> OwnedRows(cleared, cv_id, user_id) # {}])

\* set_default (lines 808-834): without a user the owner of the CV is looked
\* up, and a CV that does not exist returns False before any update
\* (lines 814-821).
set_default(cvs, cv_id, user_id) ==
    IF user_id = None
    THEN IF cv_id \in DOMAIN cvs
         THEN SetDefaultOf(cvs, cv_id, cvs[cv_id].user_id)
         ELSE [cvs |-> cvs, result |-> FALSE]
    ELSE SetDefaultOf(cvs, cv_id, user_id)

\* get_default_cv (lines 836-870): the rows the query may return, LIMIT 1
\* of the default rows of the user, or of all default rows without a user;
\* None when there is no such row.
get_default_cv(cvs, user_id) ==
    Let({id \in DOMAIN cvs :
            /\ cvs[id].is_default = 1
            /\ (user_id # None => cvs[id].user_id = user_id)},
        LAMBDA rows : IF rows = {} THEN {None} ELSE rows)

NoStoreCall == [op |-> "none", cv_id |-> 0, user_id |-> None,
                result |-> FALSE]

InitCvStore ==
    /\ doc = [pc |-> "store", cvs |-> <<>>, next_id |-> 1, ops |-> 0,
              last |-> NoStoreCall]
    /\ hyb = Idle /\ run = Idle /\ scorer = Idle /\ opt = Idle

CreateCv ==
    /\ doc.pc = "store"
    /\ doc.ops < MaxStoreOps
    /\ doc.next_id <= MaxCvs
    /\ \E user_id \in StoreUsers, is_default \in BOOLEAN :
          doc' = [doc EXCEPT
                     !.cvs = create_cv(doc.cvs, doc.next_id, user_id,
                                       is_default),
                     !.next_id = doc.next_id + 1,
                     !.ops = doc.ops + 1,
                     !.last = [op |-> "create_cv", cv_id |-> doc.next_id,
                               user_id |-> user_id, result |-> TRUE]]
    /\ UNCHANGED <<hyb, run, scorer, opt>>

DeleteCv ==
    /\ doc.pc = "store"
    /\ doc.ops < MaxStoreOps
    /\ \E cv_id \in 1..MaxCvs, user_id \in StoreUsers \cup {None} :
          doc' = [doc EXCEPT
                     !.cvs = delete_cv(doc.cvs, cv_id, user_id).cvs,
                     !.ops = doc.ops + 1,
                     !.last = [op |-> "delete_cv", cv_id |-> cv_id,
                               user_id |-> user_id,
                               result |->
                                   delete_cv(doc.cvs, cv_id, user_id).result]]
    /\ UNCHANGED <<hyb, run, scorer, opt>>

SetDefault ==
    /\ doc.pc = "store"
    /\ doc.ops < MaxStoreOps
    /\ \E cv_id \in 1..MaxCvs, user_id \in StoreUsers \cup {None} :
          doc' = [doc EXCEPT
                     !.cvs = set_default(doc.cvs, cv_id, user_id).cvs,
                     !.ops = doc.ops + 1,
                     !.last = [op |-> "set_default", cv_id |-> cv_id,
                               user_id |-> user_id,
                               result |->
                                   set_default(doc.cvs, cv_id,
                                               user_id).result]]
    /\ UNCHANGED <<hyb, run, scorer, opt>>

NextCvStore == CreateCv \/ DeleteCv \/ SetDefault

SpecCvStore == InitCvStore /\ [][NextCvStore]_vars

\* C30: a set_default call that returns False leaves the is_default flag of
\* every CV as it was, and the default CV of every user is afterwards the
\* one it was before the call.
C30_FailedSetDefaultChangesNothing ==
    [][(doc.pc = "store" /\ doc'.last.op = "set_default"
           /\ ~doc'.last.result)
          => /\ \A id \in DOMAIN doc.cvs :
                    doc'.cvs[id].is_default = doc.cvs[id].is_default
             /\ \A user_id \in StoreUsers :
                    get_default_cv(doc'.cvs, user_id)
                        = get_default_cv(doc.cvs, user_id)]_vars

=============================================================================
